---- MODULE Spec2Model ----
(***************************************************************************)
(* Feed ingestion and interest matching of whenThen                        *)
(* (src-tauri/src/services/rss.rs, src-tauri/src/commands/rss.rs).         *)
(*                                                                         *)
(* Strings are tuples of one-character strings, an Option<T> is a set of   *)
(* at most one element, time is counted in whole minutes.                  *)
(***************************************************************************)
EXTENDS Integers, Sequences, FiniteSets, TLC

\* ------------------------------------------------------------------ bounds

\* How many times the wall clock moves during one behaviour.
MaxAdvances == 1
\* How many user commands (check now, mark bad, approve, reject, fetch
\* metadata) are issued during one behaviour.
MaxCommands == 1

\* How many commands the screener's callers issue in ScreenerSpec
MaxScreenerCalls == 2

\* ------------------------------------------------------------------ text

None == {}

Some(x) == {x}

Get(o) == CHOOSE x \in o : TRUE

UpperChars ==
    <<"A", "B", "C", "D", "E", "F", "G", "H", "I", "J", "K", "L", "M",
      "N", "O", "P", "Q", "R", "S", "T", "U", "V", "W", "X", "Y", "Z">>

LowerChars ==
    <<"a", "b", "c", "d", "e", "f", "g", "h", "i", "j", "k", "l", "m",
      "n", "o", "p", "q", "r", "s", "t", "u", "v", "w", "x", "y", "z">>

DigitChars == <<"0", "1", "2", "3", "4", "5", "6", "7", "8", "9">>

\* char::to_lowercase on one character
LowerChar(c) ==
    IF \E i \in 1..26 : UpperChars[i] = c
    THEN LowerChars[CHOOSE i \in 1..26 : UpperChars[i] = c]
    ELSE c

\* str::to_lowercase
to_lowercase(s) == [i \in 1..Len(s) |-> LowerChar(s[i])]

\* str::contains with a string pattern
contains(hay, needle) ==
    \E i \in 0..(Len(hay) - Len(needle)) :
        \A j \in 1..Len(needle) : hay[i + j] = needle[j]

IsDigit(c) == \E i \in 1..10 : DigitChars[i] = c

DigitVal(c) == (CHOOSE i \in 1..10 : DigitChars[i] = c) - 1

\* the character at position i, or "" past either end
At(s, i) == IF i >= 1 /\ i <= Len(s) THEN s[i] ELSE ""

\* str::parse::<u32> of one or two decimal digits
ParseDigits(s) ==
    IF Len(s) = 1 THEN DigitVal(s[1]) ELSE 10 * DigitVal(s[1]) + DigitVal(s[2])

\* format!("{:02}", n) for n < 100
Pad2(n) == <<DigitChars[(n \div 10) + 1], DigitChars[(n % 10) + 1]>>

\* ------------------------------------------------ episode/quality heuristics

\* A match of (?i)S(\d{1,2})E(\d{1,2}) starting at position i: the set of
\* <<season text, episode text>> the regex engine captures there (greedy,
\* backtracking from two season digits to one).
SeasonEpAt(t, i) ==
    LET try(n) ==
            /\ LowerChar(At(t, i)) = "s"
            /\ \A k \in 1..n : IsDigit(At(t, i + k))
            /\ LowerChar(At(t, i + n + 1)) = "e"
            /\ IsDigit(At(t, i + n + 2))
        cap(n) ==
            LET e1 == i + n + 2
                m  == IF IsDigit(At(t, e1 + 1)) THEN 2 ELSE 1
            IN  <<SubSeq(t, i + 1, i + n), SubSeq(t, e1, e1 + m - 1)>>
    IN  IF try(2) THEN {cap(2)} ELSE IF try(1) THEN {cap(1)} ELSE {}

\* A match of (?i)(\d{1,2})x(\d{2}) starting at position i.
XPatternAt(t, i) ==
    LET try(n) ==
            /\ \A k \in 0..(n - 1) : IsDigit(At(t, i + k))
            /\ LowerChar(At(t, i + n)) = "x"
            /\ IsDigit(At(t, i + n + 1))
            /\ IsDigit(At(t, i + n + 2))
        cap(n) == <<SubSeq(t, i, i + n - 1), SubSeq(t, i + n + 1, i + n + 2)>>
    IN  IF try(2) THEN {cap(2)} ELSE IF try(1) THEN {cap(1)} ELSE {}

\* A match of (\d{4})[.\-](\d{2})[.\-](\d{2}) starting at position i.
DailyAt(t, i) ==
    IF /\ \A k \in 0..3 : IsDigit(At(t, i + k))
       /\ At(t, i + 4) \in {".", "-"}
       /\ IsDigit(At(t, i + 5)) /\ IsDigit(At(t, i + 6))
       /\ At(t, i + 7) \in {".", "-"}
       /\ IsDigit(At(t, i + 8)) /\ IsDigit(At(t, i + 9))
    THEN {<<SubSeq(t, i, i + 3), SubSeq(t, i + 5, i + 6), SubSeq(t, i + 8, i + 9)>>}
    ELSE {}

\* Regex::captures: the leftmost position at which the pattern matches
Leftmost(t, PatAt(_, _)) ==
    LET hits == {i \in 1..Len(t) : PatAt(t, i) # {}}
    IN  IF hits = {} THEN {}
        ELSE PatAt(t, CHOOSE i \in hits : \A j \in hits : i <= j)

extract_episode_id(title) ==
    LET se == Leftmost(title, SeasonEpAt)
        xp == Leftmost(title, XPatternAt)
        dy == Leftmost(title, DailyAt)
        fmt(c) == <<"S">> \o Pad2(ParseDigits(c[1])) \o <<"E">> \o Pad2(ParseDigits(c[2]))
    IN  IF se # {} THEN Some(fmt(Get(se)))
        ELSE IF xp # {} THEN Some(fmt(Get(xp)))
        ELSE IF dy # {}
             THEN Some(Get(dy)[1] \o <<"-">> \o Get(dy)[2] \o <<"-">> \o Get(dy)[3])
        ELSE None

is_quality_upgrade(title) ==
    LET lower == to_lowercase(title)
    IN  \/ contains(lower, <<"p", "r", "o", "p", "e", "r">>)
        \/ contains(lower, <<"r", "e", "p", "a", "c", "k">>)
        \/ contains(lower, <<"r", "e", "r", "i", "p">>)

\* ------------------------------------------------------------ filter evaluator

\* The patterns the regex model understands: literal characters, "\" escapes
\* of a metacharacter, "\d", ".", each followed by at most one of * + ?.
\* A pattern with a dangling repetition, a trailing "\", an unclosed "(" or
\* "[" or a stray ")" does not compile; every pattern of the catalogue is
\* inside this fragment.
ReMeta == {".", "+", "*", "?", "^", "$", "(", ")", "[", "]", "{", "}", "|", "\\"}

RECURSIVE ReParse(_, _)
\* Regex::new: the atoms of pattern p from position i on; ok is FALSE when
\* the pattern does not compile
ReParse(p, i) ==
    IF i > Len(p) THEN [ok |-> TRUE, atoms |-> <<>>]
    ELSE
        LET c    == p[i]
            esc  == c = "\\"
            w    == IF esc THEN 2 ELSE 1
            rep  == IF At(p, i + w) \in {"*", "+", "?"} THEN At(p, i + w) ELSE "1"
            nxt  == i + w + (IF rep = "1" THEN 0 ELSE 1)
            bad  == \/ esc /\ ~(At(p, i + 1) \in ReMeta \cup {"d"})
                    \/ ~esc /\ c \in (ReMeta \ {"."})
            atom == IF esc
                    THEN IF p[i + 1] = "d" THEN [kind |-> "digit", ch |-> "", rep |-> rep]
                         ELSE [kind |-> "lit", ch |-> p[i + 1], rep |-> rep]
                    ELSE IF c = "." THEN [kind |-> "any", ch |-> "", rep |-> rep]
                    ELSE [kind |-> "lit", ch |-> c, rep |-> rep]
        IN  IF bad THEN [ok |-> FALSE, atoms |-> <<>>]
            ELSE LET rest == ReParse(p, nxt)
                 IN  [ok |-> rest.ok, atoms |-> <<atom>> \o rest.atoms]

ReAtomOk(a, c, ci) ==
    CASE a.kind = "any"   -> c # "\n"
      [] a.kind = "digit" -> IsDigit(c)
      [] OTHER            -> IF ci THEN LowerChar(a.ch) = LowerChar(c) ELSE a.ch = c

RECURSIVE ReMatchAt(_, _, _, _, _)
\* whether atoms k.. match a prefix of t starting at pos
ReMatchAt(atoms, k, t, pos, ci) ==
    IF k > Len(atoms) THEN TRUE
    ELSE
        LET a    == atoms[k]
            here == pos <= Len(t) /\ ReAtomOk(a, t[pos], ci)
        IN  CASE a.rep = "1" -> here /\ ReMatchAt(atoms, k + 1, t, pos + 1, ci)
              [] a.rep = "?" -> \/ here /\ ReMatchAt(atoms, k + 1, t, pos + 1, ci)
                                \/ ReMatchAt(atoms, k + 1, t, pos, ci)
              [] a.rep = "*" -> \/ here /\ ReMatchAt(atoms, k, t, pos + 1, ci)
                                \/ ReMatchAt(atoms, k + 1, t, pos, ci)
              [] OTHER       -> here /\ \/ ReMatchAt(atoms, k, t, pos + 1, ci)
                                        \/ ReMatchAt(atoms, k + 1, t, pos + 1, ci)

\* Regex::new(p).map(|re| re.is_match(t)).unwrap_or(false); ci is the (?i) flag
regex_is_match(p, t, ci) ==
    LET re == ReParse(p, 1)
    IN  /\ re.ok
        /\ \E pos \in 1..(Len(t) + 1) : ReMatchAt(re.atoms, 1, t, pos, ci)

RECURSIVE wildcard_to_regex(_)
wildcard_to_regex(pattern) ==
    IF pattern = <<>> THEN <<>>
    ELSE
        LET c == Head(pattern)
            r == CASE c = "*" -> <<".", "*">>
                   [] c = "?" -> <<".">>
                   [] c \in {".", "+", "^", "$", "(", ")", "[", "]", "{", "}", "|", "\\"}
                        -> <<"\\", c>>
                   [] OTHER -> <<c>>
        IN  r \o wildcard_to_regex(Tail(pattern))

\* A split that finds no separator
split_whole(s, sep) == <<s>>

RECURSIVE split(_, _)
\* str::split(sep).collect(): the pieces between the separators
split(s, sep) ==
    LET cut == {i \in 1..Len(s) : s[i] = sep}
    IN  IF cut = {} THEN <<s>>
        ELSE LET i == CHOOSE j \in cut : \A k \in cut : j <= k
             IN  <<SubSeq(s, 1, i - 1)>> \o split(SubSeq(s, i + 1, Len(s)), sep)

RECURSIVE DecimalValue(_)
DecimalValue(s) ==
    IF s = <<>> THEN 0 ELSE 10 * DecimalValue(SubSeq(s, 1, Len(s) - 1)) + DigitVal(s[Len(s)])

\* str::parse::<u64>: Some(value) for an optional "+" and at least one digit
\* (values of at most nine digits, so that no overflow arises), else None
parse_u64(s) ==
    LET body == IF At(s, 1) = "+" THEN Tail(s) ELSE s
    IN  IF body # <<>> /\ Len(body) <= 9 /\ \A i \in 1..Len(body) : IsDigit(body[i])
        THEN Some(DecimalValue(body))
        ELSE None

BytesPerMB == 1048576

\* item: ParsedFeedItem, filter: FeedFilter
evaluate_single_filter(item, filter) ==
    LET title_lower == to_lowercase(item.title)
    IN  CASE filter.filter_type = "MustContain" ->
                contains(title_lower, to_lowercase(filter.value))
          [] filter.filter_type = "MustNotContain" ->
                ~contains(title_lower, to_lowercase(filter.value))
          [] filter.filter_type = "Regex" ->
                regex_is_match(filter.value, item.title, FALSE)
          [] filter.filter_type = "Wildcard" ->
                regex_is_match(wildcard_to_regex(to_lowercase(filter.value)), item.title, TRUE)
          [] filter.filter_type = "SizeRange" ->
                IF item.size # None
                THEN LET parts == split(filter.value, "-")
                     IN  IF Len(parts) = 2
                         THEN LET min_mb  == parse_u64(parts[1])
                                  max_mb  == parse_u64(parts[2])
                                  size_mb == Get(item.size) \div BytesPerMB
                              IN  /\ size_mb >= (IF min_mb = None THEN 0 ELSE Get(min_mb))
                                  \* unwrap_or(u64::MAX): no size exceeds it
                                  /\ (max_mb = None \/ size_mb <= Get(max_mb))
                         ELSE TRUE
                ELSE TRUE

\* An evaluator that asks the disabled filters too
evaluate_filters_with_disabled(item, filters, logic) ==
    LET results == [k \in 1..Len(filters) |-> evaluate_single_filter(item, filters[k])]
        matches == IF logic = "Or"
                   THEN \E k \in 1..Len(results) : results[k]
                   ELSE \A k \in 1..Len(results) : results[k]
    IN  IF filters = <<>> THEN Some(<<"no filters">>)
        ELSE IF ~matches THEN None
        ELSE Some(SelectSeq([k \in 1..Len(filters) |->
                                <<filters[k].filter_type, filters[k].value>>],
                            LAMBDA d : \E k \in 1..Len(filters) :
                                /\ d = <<filters[k].filter_type, filters[k].value>>
                                /\ results[k]))

\* Option<String>: None, or Some(the clauses of the satisfied filters)
evaluate_filters_with_logic(item, filters, logic) ==
    LET enabled_filters == SelectSeq(filters, LAMBDA f : f.enabled)
        results == [k \in 1..Len(enabled_filters) |->
                        evaluate_single_filter(item, enabled_filters[k])]
        matches == IF logic = "Or"
                   THEN \E k \in 1..Len(results) : results[k]
                   ELSE \A k \in 1..Len(results) : results[k]
        \* the clause of each satisfied filter, in filter order
        desc[k \in 0..Len(results)] ==
            IF k = 0 THEN <<>>
            ELSE IF results[k]
                 THEN Append(desc[k - 1],
                             <<enabled_filters[k].filter_type, enabled_filters[k].value>>)
                 ELSE desc[k - 1]
    IN  IF enabled_filters = <<>> THEN Some(<<"no filters">>)
        ELSE IF ~matches THEN None
        ELSE Some(desc[Len(results)])

\* --------------------------------------------------------- backoff controller

\* A u32 kept in two 16-bit limbs: the value is hi * 65536 + lo.
U16Max == 65535

U32(n) == [hi |-> n \div 65536, lo |-> n % 65536]

U32Max == [hi |-> U16Max, lo |-> U16Max]

\* u32::saturating_add(1)
saturating_add_1(x) ==
    IF x = U32Max THEN x
    ELSE IF x.lo = U16Max THEN [hi |-> x.hi + 1, lo |-> 0]
    ELSE [hi |-> x.hi, lo |-> x.lo + 1]

\* u32::saturating_sub(1)
saturating_sub_1(x) ==
    IF x.lo > 0 THEN [hi |-> x.hi, lo |-> x.lo - 1]
    ELSE IF x.hi > 0 THEN [hi |-> x.hi - 1, lo |-> U16Max]
    ELSE x

\* u32::min(k) for a k below 65536, as a number
MinSmall(x, k) == IF x.hi > 0 \/ x.lo > k THEN k ELSE x.lo

RECURSIVE Pow2(_)
Pow2(n) == IF n = 0 THEN 1 ELSE 2 * Pow2(n - 1)

Min(a, b) == IF a <= b THEN a ELSE b

\* A backoff without the cap of 30 minutes
calculate_backoff_uncapped(failure_count) ==
    Pow2(MinSmall(saturating_sub_1(failure_count), 5))

\* Duration in whole minutes: (1u64 << failure_count.saturating_sub(1).min(5)).min(30)
calculate_backoff(failure_count) ==
    Min(Pow2(MinSmall(saturating_sub_1(failure_count), 5)), 30)

\* A backoff test that never holds a source back
is_in_backoff_never(source, t) == FALSE

\* Utc::now() < retry_after, when retry_after is set
is_in_backoff(source, t) == source.retry_after # None /\ t < Get(source.retry_after)

\* ------------------------------------------------------------------ catalogue

SearchToken == <<"{", "s", "e", "a", "r", "c", "h", "}">>

has_search_placeholder(url) == contains(url, SearchToken)

\* urlencoding::encode: unreserved characters stay, a space becomes %20
urlencode(term) ==
    LET enc(c) == IF c = " " THEN <<"%", "2", "0">> ELSE <<c>>
        F[k \in 0..Len(term)] == IF k = 0 THEN <<>> ELSE F[k - 1] \o enc(term[k])
    IN  F[Len(term)]

RECURSIVE replace(_, _, _)
\* str::replace(from, to)
replace(s, from, to) ==
    IF Len(s) < Len(from) THEN s
    ELSE IF SubSeq(s, 1, Len(from)) = from
         THEN to \o replace(SubSeq(s, Len(from) + 1, Len(s)), from, to)
         ELSE <<Head(s)>> \o replace(Tail(s), from, to)

build_search_url(url_template, interest) ==
    LET term == IF interest.search_term # None /\ Get(interest.search_term) # <<>>
                THEN Get(interest.search_term)
                ELSE interest.name
    IN  replace(url_template, SearchToken, urlencode(term))

\* ParsedFeedItem; parse_feed_entries sets guid to a copy of id
Item(id, title, magnet, torrent) ==
    [id |-> id, guid |-> id, title |-> title, magnet_uri |-> magnet,
     torrent_url |-> torrent, size |-> None]

A1 == Item(<<"a", "1">>,
           <<"S", "h", "o", "w", ".", "S", "0", "1", "E", "0", "1", ".", "1", "0", "8", "0", "p">>,
           Some(<<"m", "a", "g", "n", "e", "t", ":", "a", "1">>), None)

A2 == Item(<<"a", "2">>,
           <<"S", "h", "o", "w", ".", "S", "0", "1", "E", "0", "1", ".", "1", "0", "8", "0", "p",
             ".", "R", "E", "P", "A", "C", "K">>,
           Some(<<"m", "a", "g", "n", "e", "t", ":", "a", "2">>), None)

A3 == Item(<<"a", "3">>,
           <<"s", "h", "o", "w", ".", "1", "x", "0", "1", ".", "7", "2", "0", "p">>,
           None, Some(<<"h", "t", "t", "p", ":", "/", "/", "t", "/", "a", "3">>))

A4 == Item(<<"a", "4">>,
           <<"S", "h", "o", "w", ".", "S", "0", "1", "E", "0", "2", ".", "1", "0", "8", "0", "p">>,
           None, None)

A5 == Item(<<"a", "5">>,
           <<"u", "b", "u", "n", "t", "u", "-", "2", "4", ".", "0", "4", ".", "i", "s", "o">>,
           Some(<<"m", "a", "g", "n", "e", "t", ":", "a", "5">>), None)

Filter(type, value) == [filter_type |-> type, value |-> value, enabled |-> TRUE]

\* Interest
I1 == [id |-> <<"i", "1">>, name |-> <<"S", "h", "o", "w">>, enabled |-> TRUE,
       filters |-> <<Filter("MustContain", <<"s", "h", "o", "w">>)>>,
       filter_logic |-> "And", search_term |-> None,
       smart_episode_filter |-> TRUE, download_path |-> None]

I2 == [id |-> <<"i", "2">>, name |-> <<"H", "D">>, enabled |-> TRUE,
       filters |-> <<Filter("MustContain", <<"1", "0", "8", "0", "p">>)>>,
       filter_logic |-> "And", search_term |-> Some(<<"h", "d">>),
       smart_episode_filter |-> FALSE, download_path |-> Some(<<"/", "h", "d">>)]

\* I2 as the settings form sends it back with another download folder
I2Moved == [I2 EXCEPT !.download_path = Some(<<"/", "x">>)]

\* AppConfig::default().rss_check_interval_minutes
rss_check_interval_minutes == 15

\* Source
NewSource(id, name, url) ==
    [id |-> id, name |-> name, url |-> url, enabled |-> TRUE, check_interval |-> None,
     last_checked |-> None, next_check_at |-> None, etag |-> None,
     last_modified |-> None, failure_count |-> U32(0), retry_after |-> None,
     use_guid_dedup |-> FALSE]

S1 == NewSource(<<"s", "1">>, <<"f", "e", "e", "d">>,
                <<"h", "t", "t", "p", ":", "/", "/", "f", "/", "r", "s", "s">>)

\* A search source with a check interval of its own, 30 minutes
S2 == [NewSource(<<"s", "2">>, <<"f", "i", "n", "d">>,
                 <<"h", "t", "t", "p", ":", "/", "/", "q", "/">> \o SearchToken)
        EXCEPT !.check_interval = Some(30)]

\* Every item a feed may carry, every interest and every source of the store
Catalogue == {A1, A2, A3, A4, A5}

StoredInterests == {I1, I2, I2Moved}

StoredUrls == {S1.url, S2.url}

\* The heuristics, the filter evaluator and the URL builder on the catalogue,
\* as tables computed once (@@ makes the table an explicit function)
episode_id_of ==
    [title \in {i.title : i \in Catalogue} |-> extract_episode_id(title)] @@ <<>>

quality_upgrade_of ==
    [title \in {i.title : i \in Catalogue} |-> is_quality_upgrade(title)] @@ <<>>

filters_result ==
    [p \in StoredInterests \X Catalogue |->
        evaluate_filters_with_logic(p[2], p[1].filters, p[1].filter_logic)] @@ <<>>

search_url_of ==
    [p \in StoredUrls \X StoredInterests |-> build_search_url(p[1], p[2])] @@ <<>>

search_placeholder_in ==
    [url \in StoredUrls |-> has_search_placeholder(url)] @@ <<>>

\* What the feed servers hold: the documents a GET of url may return.
world_feed(url) ==
    IF url = S1.url THEN {<<A1, A2, A3>>, <<A2, A4, A5>>}
    ELSE IF url = search_url_of[<<S2.url, I1>>] THEN {<<A2, A3>>}
    ELSE IF url = search_url_of[<<S2.url, I2>>] THEN {<<A1>>}
    ELSE {<<>>}

\* The ETag a server sends with a full response
ServerETag == <<"v", "1">>

\* ---------------------------------------------------------------------- state

\* The tasks that poll: the scheduler task of start_service, and one task
\* running a command that polls (check_feeds_now, or mark_bad with a rescan).
Procs == {"sched", "cmd"}

\* 60 days and one hour, in minutes (MAX_AGE_SECS, CLEANUP_INTERVAL_SECS)
MAX_AGE_SECS == 5184000

CLEANUP_INTERVAL_SECS == 3600

\* How far the wall clock may move in one step: the cleanup interval, which
\* outlasts every backoff and check interval, and the ledger's retention.
Delays == {CLEANUP_INTERVAL_SECS \div 60, MAX_AGE_SECS \div 60}

VARIABLES
    sources,            \* RssState.sources: Vec<Source>
    interests,          \* RssState.interests: Vec<Interest>
    seen_items,         \* RssState.seen_items: key -> timestamp
    seen_episodes,      \* RssState.seen_episodes: interest id -> set of episode ids
    bad_items,          \* RssState.bad_items: info hash -> BadItem
    pending_matches,    \* RssState.pending_matches: Vec<PendingMatch>
    last_cleanup,       \* RssState.last_cleanup
    last_global_check,  \* start_service: last_global_check
    shutdown_rx,        \* start_service: whether the oneshot channel holds stop()'s message
    seen_lock,          \* the task holding the seen_items mutex, if any
    seen_episodes_lock, \* the Mutex of RssState.seen_episodes: its holder
    pending_lock,       \* the RwLock of RssState.pending_matches: its holder
    task,               \* per polling task: where it is and its locals
    meta,               \* the fetch_metadata call in flight, if any
    approving,          \* the approve calls in flight, each with the match it took
    session,            \* the torrent session: uri -> [paused, output_folder]
    downloads,          \* every call of the download collaborator's add, in order
    disk,               \* what the persistence stores hold
    reply,              \* what the last finished command returned
    now,                \* the wall clock, in minutes
    advances,           \* how often the clock has moved
    commands,           \* how many user commands are still to come
    created             \* every PendingMatch constructed so far, in order, each
                        \* with the dedup key it was constructed under

vars == <<sources, interests, seen_items, seen_episodes, bad_items, pending_matches,
          last_cleanup, last_global_check, shutdown_rx, seen_lock, seen_episodes_lock, pending_lock, task, meta, approving,
          session, downloads, disk, reply, now, advances, commands, created>>

IdleTask ==
    [pc |-> "idle", kind |-> "none", sources |-> <<>>, interests |-> <<>>,
     si |-> 0, ik |-> 0, items |-> <<>>, ii |-> 0,
     etag |-> None, last_modified |-> None, now_utc |-> 0, due |-> FALSE,
     updates |-> <<>>, failed |-> {}, unchanged |-> {}, fetched |-> <<>>]

NoReply == [op |-> "none", arg |-> <<>>, res |-> "none"]

\* S1 as the store holds it after an earlier run in which it was fetched and
\* then failed twice, the last time 20 minutes before the start
S1Failed ==
    [S1 EXCEPT !.failure_count = U32(2), !.retry_after = Some(0 - 18),
               !.etag = Some(ServerETag), !.last_checked = Some(0 - 20),
               !.next_check_at = Some(0 - 5)]

\* S1 as the store holds it after its sixth failure in a row, 20 minutes
\* before the start: the retry time is still ahead, the next check is not
S1Backoff ==
    [S1 EXCEPT !.failure_count = U32(6), !.retry_after = Some(10),
               !.last_checked = Some(0 - 20), !.next_check_at = Some(0 - 5)]

\* The source lists the store may hold at the start: one of the two sources
\* is switched off
StoredSources ==
    { <<S1, [S2 EXCEPT !.enabled = FALSE]>>,
      <<S1Failed, [S2 EXCEPT !.enabled = FALSE]>>,
      <<S1Backoff, [S2 EXCEPT !.enabled = FALSE]>>,
      <<[S1 EXCEPT !.enabled = FALSE], S2>> }

\* A store whose interests are all switched off, with a seen-item ledger
\* that holds one entry an hour short of MAX_AGE_SECS
StoredQuiet ==
    [sources    |-> <<S1, [S2 EXCEPT !.enabled = FALSE]>>,
     interests  |-> <<[I1 EXCEPT !.enabled = FALSE], [I2 EXCEPT !.enabled = FALSE]>>,
     seen_items |-> [k \in {S1.id \o <<":">> \o A5.id} |->
                        (CLEANUP_INTERVAL_SECS - MAX_AGE_SECS) \div 60]]

\* What setup may load: a store with both interests on and an empty ledger,
\* or the quiet one
Stored ==
    {[sources |-> ss, interests |-> <<I1, I2>>, seen_items |-> <<>>] : ss \in StoredSources}
        \cup {StoredQuiet}

\* The state once setup has loaded a configured store and started the service:
\* last_global_check is one hour before the start, so the first tick is due.
Loaded ==
    /\ \E store \in Stored :
            /\ sources = store.sources
            /\ interests = store.interests
            /\ seen_items = store.seen_items
    /\ seen_episodes = <<>>
    /\ bad_items = <<>>
    /\ pending_matches = <<>>
    /\ last_cleanup = 0
    /\ last_global_check = 0 - 60
    /\ shutdown_rx = FALSE
    /\ seen_lock = None
    /\ seen_episodes_lock = None
    /\ pending_lock = None
    /\ task = [p \in Procs |-> IdleTask]
    /\ meta = None
    /\ approving = <<>>
    /\ session = <<>>
    /\ downloads = <<>>
    /\ disk = [sources |-> sources, interests |-> interests,
               seen_items |-> seen_items, bad_items |-> <<>>]
    /\ reply = NoReply
    /\ now = 0
    /\ advances = 0
    /\ created = <<>>

Init == Loaded /\ commands = MaxCommands

\* ------------------------------------------------------------------- helpers

\* HashMap::insert
MapPut(m, k, v) == [x \in DOMAIN m \cup {k} |-> IF x = k THEN v ELSE m[x]]

\* HashMap::retain / remove
MapKeep(m, keep) == [x \in keep \cap DOMAIN m |-> m[x]]

\* Vec::retain / Vec::remove
SeqWithout(s, idx) == SubSeq(s, 1, idx - 1) \o SubSeq(s, idx + 1, Len(s))

\* format!("{}:{}", a, b)
Colon(a, b) == a \o <<":">> \o b

\* The dedup key of an item for task record t and source src: the source id
\* and the item id or guid, with the interest id between them in placeholder
\* mode (use_interest_key).
item_key(src, interest_id, item) ==
    LET base_id == IF src.use_guid_dedup THEN item.guid ELSE item.id
    IN  IF interest_id # None
        THEN Colon(src.id, Colon(Get(interest_id), base_id))
        ELSE Colon(src.id, base_id)

\* A link test that lets every item through
HasLink_assumed(item) == TRUE

\* A link test that turns every item down once an item was marked bad
HasLink_unless_bad(item) ==
    (item.magnet_uri # None \/ item.torrent_url # None) /\ bad_items = <<>>

HasLink(item) == item.magnet_uri # None \/ item.torrent_url # None

\* seen_episodes of one interest (an interest without an entry has none)
EpisodesOf(eps, interest_id) == IF interest_id \in DOMAIN eps THEN eps[interest_id] ELSE {}

\* A gate that makes no exception for quality upgrades
episode_gate_no_exemption(interest, item, eps) ==
    LET episode_id == episode_id_of[item.title]
    IN  IF interest.smart_episode_filter /\ episode_id # None
        THEN IF Get(episode_id) \in EpisodesOf(eps, interest.id) THEN "skip" ELSE "record"
        ELSE "pass"

\* The seen-episode gate of one interest for one item: "skip" when the
\* episode is already recorded, "record" when it is to be recorded with the
\* match, "pass" when the gate does not apply.
episode_gate(interest, item, eps) ==
    LET episode_id == episode_id_of[item.title]
    IN  IF interest.smart_episode_filter /\ ~quality_upgrade_of[item.title]
           /\ episode_id # None
        THEN IF Get(episode_id) \in EpisodesOf(eps, interest.id) THEN "skip" ELSE "record"
        ELSE "pass"

\* An episode ledger with one set for all interests together
RecordEpisode_shared(eps, interest, item) ==
    [i \in DOMAIN eps \cup {interest.id, <<>>} |->
        EpisodesOf(eps, i) \cup (IF i = <<>> THEN episode_id_of[item.title] ELSE {})]

\* An episode ledger that is never written
RecordEpisode_omitted(eps, interest, item) == eps

RecordEpisode(eps, interest, item) ==
    MapPut(eps, interest.id,
           EpisodesOf(eps, interest.id) \cup episode_id_of[item.title])

\* An interest loop that ends at the first interest whose filters match the
\* item, whether its episode gate lets the item through or not
first_match_no_further(ints, k, item, eps) ==
    LET matching == {j \in k..Len(ints) : filters_result[<<ints[j], item>>] # None}
        first    == CHOOSE j \in matching : \A i \in matching : j <= i
    IN  IF matching = {} THEN 0
        ELSE IF episode_gate(ints[first], item, eps) = "skip" THEN 0
        ELSE first

\* The last interest from k on that takes the item, not the first
first_match_last(ints, k, item, eps) ==
    LET takes == {j \in k..Len(ints) :
                    /\ filters_result[<<ints[j], item>>] # None
                    /\ episode_gate(ints[j], item, eps) # "skip"}
    IN  IF takes = {} THEN 0 ELSE CHOOSE j \in takes : \A i \in takes : i <= j

RECURSIVE first_match(_, _, _, _)
\* "Check against all interests (first match wins)": the index of the first
\* interest from k on whose filters match and whose episode gate lets the
\* item through, or 0
first_match(ints, k, item, eps) ==
    IF k > Len(ints) THEN 0
    ELSE IF filters_result[<<ints[k], item>>] = None
         THEN first_match(ints, k + 1, item, eps)
    ELSE IF episode_gate(ints[k], item, eps) = "skip"
         THEN first_match(ints, k + 1, item, eps)
    ELSE k

\* PendingMatch { id: Uuid::new_v4(), ... }: the n-th record constructed
NewPending(n, src, interest, item, t) ==
    [id |-> n, source_id |-> src.id, source_name |-> src.name,
     interest_id |-> interest.id, interest_name |-> interest.name,
     title |-> item.title, magnet_uri |-> item.magnet_uri,
     torrent_url |-> item.torrent_url, created_at |-> t, metadata |-> None]

\* An item loop that queues a match without marking the item seen
decide_standard_forgetful(src, ints, item, seen, eps, t) ==
    LET k == first_match(ints, 1, item, eps)
    IN  [seen |-> seen, eps |-> eps, hit |-> IF HasLink(item) THEN k ELSE 0]

\* What one pass of the item loop does to the ledgers for one item whose key
\* is not in the seen-item ledger, in standard mode: hit is the index of the
\* interest the item is queued for, or 0.
decide_standard(src, ints, item, seen, eps, t) ==
    LET key == item_key(src, None, item)
        outcome(k) ==
            IF k = 0 THEN [seen |-> seen, eps |-> eps, hit |-> 0]
            ELSE [seen |-> MapPut(seen, key, t),
                  eps  |-> IF episode_gate(ints[k], item, eps) = "record"
                           THEN RecordEpisode(eps, ints[k], item) ELSE eps,
                  hit  |-> k]
    IN  IF ~HasLink(item) THEN [seen |-> MapPut(seen, key, t), eps |-> eps, hit |-> 0]
        ELSE outcome(first_match(ints, 1, item, eps))

\* A placeholder-mode item loop that tries every interest of the poll on the
\* item, as the standard loop does
decide_for_interest_any(src, ints, k, item, seen, eps, t) ==
    LET hit  == first_match(ints, 1, item, eps)
        key  == item_key(src, Some(ints[k].id), item)
        put  == MapPut(seen, key, t)
    IN  IF ~HasLink(item) \/ hit = 0 THEN [seen |-> put, eps |-> eps, hit |-> 0]
        ELSE [seen |-> put,
              eps  |-> IF episode_gate(ints[hit], item, eps) = "record"
                       THEN RecordEpisode(eps, ints[hit], item) ELSE eps,
              hit  |-> hit]

\* The same for process_items_for_interest (placeholder mode), for the one
\* interest at index k: an item the interest does not take is marked seen too.
decide_for_interest(src, ints, k, item, seen, eps, t) ==
    LET interest == ints[k]
        key  == item_key(src, Some(interest.id), item)
        put  == MapPut(seen, key, t)
        gate == episode_gate(interest, item, eps)
    IN  IF ~HasLink(item) THEN [seen |-> put, eps |-> eps, hit |-> 0]
        ELSE IF filters_result[<<interest, item>>] = None
             THEN [seen |-> put, eps |-> eps, hit |-> 0]
        ELSE IF gate = "skip" THEN [seen |-> put, eps |-> eps, hit |-> 0]
        ELSE [seen |-> put,
              eps  |-> IF gate = "record" THEN RecordEpisode(eps, interest, item) ELSE eps,
              hit  |-> k]

\* An Ok(..) arm that resets the count and leaves the retry time
check_succeeded_keeps_retry(source, new_etag, new_last_modified) ==
    [source EXCEPT !.failure_count = U32(0),
                   !.etag = IF new_etag # None THEN new_etag ELSE @,
                   !.last_modified = IF new_last_modified # None
                                     THEN new_last_modified ELSE @]

\* An Ok(..) arm that leaves the backoff state alone
check_succeeded_keeps_backoff(source, new_etag, new_last_modified) ==
    [source EXCEPT !.etag = IF new_etag # None THEN new_etag ELSE @,
                   !.last_modified = IF new_last_modified # None
                                     THEN new_last_modified ELSE @]

\* The scheduler's bookkeeping of a source after its check: Ok(..) arm
check_succeeded(source, new_etag, new_last_modified) ==
    [source EXCEPT !.failure_count = U32(0),
                   !.retry_after = None,
                   !.etag = IF new_etag # None THEN new_etag ELSE @,
                   !.last_modified = IF new_last_modified # None
                                     THEN new_last_modified ELSE @]

\* Err(..) arm
check_failed(source, now_utc) ==
    LET count == saturating_add_1(source.failure_count)
    IN  [source EXCEPT !.failure_count = count,
                       !.retry_after = Some(now_utc + calculate_backoff(count))]

\* A next check time that is always the global interval away
schedule_next_global(source, now_utc) ==
    [source EXCEPT !.next_check_at = Some(now_utc + rss_check_interval_minutes),
                   !.last_checked = Some(now_utc)]

\* "Calculate next check time"
schedule_next(source, now_utc) ==
    LET interval_mins == IF source.check_interval # None
                         THEN Get(source.check_interval)
                         ELSE rss_check_interval_minutes
    IN  [source EXCEPT !.next_check_at = Some(now_utc + interval_mins),
                       !.last_checked = Some(now_utc)]

\* A source loop that a failed check ends: the error leaves the loop and the
\* remaining sources are passed over
finish_source_aborting(t, outcome) ==
    LET source  == t.sources[t.si]
        checked == IF outcome = "ok"
                   THEN check_succeeded(source, t.etag, t.last_modified)
                   ELSE check_failed(source, t.now_utc)
    IN  [t EXCEPT !.pc = "source",
                  !.si = IF outcome = "ok" THEN @ + 1 ELSE Len(t.sources) + 1,
                  !.ik = 0, !.items = <<>>, !.ii = 0,
                  !.etag = None, !.last_modified = None,
                  !.updates = IF t.kind = "tick"
                              THEN Append(@, schedule_next(checked, t.now_utc))
                              ELSE @]

\* The task record once the check of its current source has ended: the
\* scheduler queues the updated source for the write-back, and both go on to
\* the next source. outcome is "ok" or "err".
finish_source(t, outcome) ==
    LET source  == t.sources[t.si]
        checked == IF outcome = "ok"
                   THEN check_succeeded(source, t.etag, t.last_modified)
                   ELSE check_failed(source, t.now_utc)
    IN  [t EXCEPT !.pc = "source", !.si = @ + 1, !.ik = 0, !.items = <<>>, !.ii = 0,
                  !.etag = None, !.last_modified = None,
                  !.updates = IF t.kind = "tick"
                              THEN Append(@, schedule_next(checked, t.now_utc))
                              ELSE @]

\* The task record once the item loop over t.items has ended: in placeholder
\* mode the next interest is searched, else the source is done.
after_items(t) ==
    IF t.ik > 0 /\ t.ik < Len(t.interests)
    THEN [t EXCEPT !.pc = "interest", !.ik = @ + 1, !.items = <<>>, !.ii = 0]
    ELSE finish_source(t, "ok")

\* The task record once item t.ii has been dealt with
after_item(t) ==
    IF t.ii < Len(t.items)
    THEN [t EXCEPT !.pc = "item", !.ii = @ + 1]
    ELSE after_items(t)

\* The task record with a fetched item list to go through (fetched notes
\* which document a standard source answered with)
with_items(t, items) ==
    LET noted == IF t.ik = 0
                 THEN [t EXCEPT !.fetched = MapPut(@, t.sources[t.si].id, items)]
                 ELSE t
    IN  IF items = <<>> THEN after_items(noted)
        ELSE [noted EXCEPT !.pc = "item", !.items = items, !.ii = 1]

\* The dedup key of the item task record t is at
current_key(t) ==
    item_key(t.sources[t.si],
             IF t.ik > 0 THEN Some(t.interests[t.ik].id) ELSE None,
             t.items[t.ii])

\* A mutex that excludes nobody
can_lock_unguarded(p) == TRUE

\* rss_state.seen_items.lock().await succeeds for task p
can_lock(p) == seen_lock = None

\* ----------------------------------------------------------- the item loop

\* "let mut seen = rss_state.seen_items.lock().await; if seen.contains_key(..)
\* { continue; }": a known key ends the iteration (and the guard's life).
PollItem(p) ==
    LET t    == task[p]
        src  == t.sources[t.si]
        item == t.items[t.ii]
        key  == current_key(t)
    IN  /\ t.pc = "item"
        /\ can_lock(p)
        /\ IF key \in DOMAIN seen_items
           THEN /\ task' = [task EXCEPT ![p] = after_item(t)]
                /\ UNCHANGED seen_lock
           ELSE /\ task' = [task EXCEPT ![p].pc = "locked"]
                /\ seen_lock' = Some(p)
        /\ UNCHANGED <<sources, interests, seen_items, seen_episodes, bad_items,
                       seen_episodes_lock, pending_lock,
                       pending_matches, last_cleanup, shutdown_rx, last_global_check, meta, session, approving, downloads,
                       disk, reply, now, advances, commands, created>>

\* The rest of the iteration: the link test, the filters, the episode gate
\* and the inserts under the mutex, then drop(seen), the construction of the
\* PendingMatch and rss_state.pending_matches.write().await.push(pending).
PollDecide(p) ==
    LET t    == task[p]
        src  == t.sources[t.si]
        item == t.items[t.ii]
    IN  /\ t.pc = "locked"
        /\ \E d \in {IF t.ik > 0
                      THEN decide_for_interest(src, t.interests, t.ik, item,
                                               seen_items, seen_episodes, now)
                      ELSE decide_standard(src, t.interests, item,
                                           seen_items, seen_episodes, now)} :
            /\ seen_items' = d.seen
            /\ seen_episodes' = d.eps
            /\ IF d.hit = 0
               THEN UNCHANGED <<created, pending_matches>>
               ELSE \E pm \in {NewPending(Len(created) + 1, src, t.interests[d.hit],
                                          item, now)} :
                        /\ created' = Append(created, [key |-> current_key(t), match |-> pm])
                        /\ pending_matches' = Append(pending_matches, pm)
        /\ seen_lock' = None
        /\ task' = [task EXCEPT ![p] = after_item(t)]
        /\ UNCHANGED <<sources, interests, bad_items, last_cleanup, shutdown_rx, last_global_check,
                       seen_episodes_lock, pending_lock,
                       meta, session, approving, downloads, disk, reply, now, advances, commands>>

\* ------------------------------------------------------- the source loops

\* A due test that looks at the global interval only, whatever the source's
\* own next check time
should_check_global_only(t, source) ==
    /\ source.enabled
    /\ ~is_in_backoff(source, now)
    /\ t.due

\* Whether the scheduler checks this source in the tick of task record t:
\* enabled, not in backoff, and due
should_check(t, source) ==
    /\ source.enabled
    /\ ~is_in_backoff(source, now)
    /\ IF source.next_check_at # None
       THEN t.now_utc >= Get(source.next_check_at)
       ELSE t.due

\* A source loop in which only the scheduler checks anything
wants_source_tick_only(t, source) == t.kind = "tick" /\ should_check(t, source)

\* Whether task record t checks this source at all
wants_source(t, source) ==
    IF t.kind = "tick" THEN should_check(t, source) ELSE source.enabled

RECURSIVE next_source(_, _)
\* the index of the first source from k on that the loop does not skip
next_source(t, k) ==
    IF k > Len(t.sources) THEN k
    ELSE IF wants_source(t, t.sources[k]) THEN k
    ELSE next_source(t, k + 1)

\* Whether a server may answer 304 to the request for this source: only a
\* request that carries If-None-Match or If-Modified-Since
may_be_not_modified(t, source) ==
    t.kind = "tick" /\ (source.etag # None \/ source.last_modified # None)

\* The etag a full response hands to the caller: fetch_feed_with_cache
\* returns the ETag header, fetch_feed (the commands' fetch) drops it.
response_etag(t) == IF t.kind = "tick" THEN Some(ServerETag) ELSE None

\* The head of "for source in sources": the skipped sources are passed over;
\* past the last one the scheduler goes on to its write-back and the command
\* returns; a placeholder source goes to its interest loop; a standard source
\* is fetched, which fails, or (for the scheduler's conditional request)
\* is answered 304, or yields a feed document.
PollSource(p) ==
    LET t0  == task[p]
        k   == next_source(t0, t0.si)
        t   == [t0 EXCEPT !.si = k]
        src == t.sources[k]
    IN  /\ t0.pc = "source"
        /\ IF k > Len(t0.sources)
           THEN /\ task' = [task EXCEPT ![p] = IF t0.kind = "tick"
                                               THEN [t EXCEPT !.pc = "writeback"]
                                               ELSE IdleTask]
                /\ reply' = IF t0.kind = "tick" THEN reply
                            ELSE [op |-> t0.kind, arg |-> <<>>, res |-> "Ok"]
           ELSE /\ UNCHANGED reply
                /\ IF search_placeholder_in[src.url]
                   THEN task' = [task EXCEPT ![p] = [t EXCEPT !.pc = "interest", !.ik = 1]]
                   ELSE \/ task' = [task EXCEPT ![p] =
                                finish_source([t EXCEPT !.failed = @ \cup {src.id}], "err")]
                        \/ /\ may_be_not_modified(t, src)
                           /\ task' = [task EXCEPT ![p] =
                                finish_source([t EXCEPT !.unchanged = @ \cup {src.id}], "ok")]
                        \/ \E items \in world_feed(src.url) :
                                task' = [task EXCEPT ![p] =
                                    with_items([t EXCEPT !.etag = response_etag(t)], items)]
        /\ UNCHANGED <<sources, interests, seen_items, seen_episodes, bad_items,
                       pending_matches, last_cleanup, shutdown_rx, last_global_check, seen_lock, seen_episodes_lock, pending_lock, meta,
                       session, approving, downloads, disk, now, advances, commands, created>>

\* Placeholder mode, one interest: fetch_feed of the search URL fails (the
\* error is logged and the loop goes on) or yields a feed document.
PollSearch(p) ==
    LET t   == task[p]
        src == t.sources[t.si]
        url == search_url_of[<<src.url, t.interests[t.ik]>>]
    IN  /\ t.pc = "interest"
        /\ \/ task' = [task EXCEPT ![p] = after_items([t EXCEPT !.failed = @ \cup {src.id}])]
           \/ \E items \in world_feed(url) :
                task' = [task EXCEPT ![p] = with_items(t, items)]
        /\ UNCHANGED <<sources, interests, seen_items, seen_episodes, bad_items,
                       pending_matches, last_cleanup, shutdown_rx, last_global_check, seen_lock, seen_episodes_lock, pending_lock, meta,
                       session, approving, downloads, disk, reply, now, advances, commands, created>>

\* ------------------------------------------------------------- the scheduler

\* A cleanup that drops every entry, whatever its age
retain_nothing(seen, t) == <<>>

\* A cleanup that keeps the entries that are exactly MAX_AGE_SECS old
retain_up_to_max_age(seen, t) ==
    MapKeep(seen, {k \in DOMAIN seen : (t - seen[k]) * 60 <= MAX_AGE_SECS})

\* seen.retain(|_, timestamp| (now - timestamp).num_seconds() < MAX_AGE_SECS)
retain_fresh(seen, t) ==
    MapKeep(seen, {k \in DOMAIN seen : (t - seen[k]) * 60 < MAX_AGE_SECS})

\* last.elapsed().as_secs() >= CLEANUP_INTERVAL_SECS
should_cleanup == (now - last_cleanup) * 60 >= CLEANUP_INTERVAL_SECS

EnabledInterests(ints) == SelectSeq(ints, LAMBDA i : i.enabled)

\* A tick without the early exit
tick_snapshot_unconditional ==
    [IdleTask EXCEPT
        !.pc = "source", !.kind = "tick", !.sources = sources,
        !.interests = EnabledInterests(interests), !.si = 1, !.now_utc = now,
        !.due = (now - last_global_check) * 60 >= rss_check_interval_minutes * 60]

\* The tick from the reading of the settings to the start of the source
\* loop; with no enabled interest the tick ends at once ("continue").
tick_snapshot ==
    LET enabled_interests == EnabledInterests(interests)
    IN  IF enabled_interests = <<>> THEN IdleTask
        ELSE [IdleTask EXCEPT
                !.pc = "source", !.kind = "tick", !.sources = sources,
                !.interests = enabled_interests, !.si = 1, !.now_utc = now,
                !.due = (now - last_global_check) * 60 >= rss_check_interval_minutes * 60]

\* interval.tick() fires: maybe_cleanup_seen_items finds no cleanup due and
\* the tick goes on, or it queues for the seen_items mutex.
SchedTick ==
    /\ task["sched"].pc = "idle"
    /\ task' = [task EXCEPT !["sched"] = IF should_cleanup
                                        THEN [IdleTask EXCEPT !.pc = "cleanup"]
                                        ELSE tick_snapshot]
    /\ UNCHANGED <<sources, interests, seen_items, seen_episodes, bad_items,
                   pending_matches, last_cleanup, shutdown_rx, last_global_check, seen_lock, seen_episodes_lock, pending_lock, meta,
                   session, approving, downloads, disk, reply, now, advances, commands, created>>

\* maybe_cleanup_seen_items under the mutex, then the tick goes on
SchedCleanup ==
    /\ task["sched"].pc = "cleanup"
    /\ can_lock("sched")
    /\ seen_items' = retain_fresh(seen_items, now)
    /\ last_cleanup' = now
    /\ task' = [task EXCEPT !["sched"] = tick_snapshot]
    /\ UNCHANGED <<sources, interests, seen_episodes, bad_items, pending_matches,
                   last_global_check, shutdown_rx, seen_lock, seen_episodes_lock, pending_lock, meta, session, approving,
                   downloads, disk, reply, now, advances, commands, created>>

RECURSIVE write_back(_, _)
\* "if let Some(src) = sources_lock.iter_mut().find(|s| s.id == updated.id)
\* { *src = updated; }" for every updated source
write_back(srcs, updates) ==
    IF updates = <<>> THEN srcs
    ELSE write_back([k \in 1..Len(srcs) |->
                        IF srcs[k].id = Head(updates).id
                           /\ \A j \in 1..(k - 1) : srcs[j].id # Head(updates).id
                        THEN Head(updates) ELSE srcs[k]],
                    Tail(updates))

SchedWriteBack ==
    LET t == task["sched"]
    IN  /\ t.pc = "writeback"
        /\ sources' = write_back(sources, t.updates)
        /\ last_global_check' = IF t.due THEN t.now_utc ELSE last_global_check
        /\ task' = [task EXCEPT !["sched"].pc = "persist"]
        /\ UNCHANGED <<interests, seen_items, seen_episodes, bad_items, pending_matches,
                       last_cleanup, shutdown_rx, seen_lock, seen_episodes_lock, pending_lock, meta, session, approving, downloads, disk, reply, now,
                       advances, commands, created>>

\* persist_seen_items (under the mutex) and persist_sources_internal
SchedPersist ==
    /\ task["sched"].pc = "persist"
    /\ can_lock("sched")
    /\ disk' = [disk EXCEPT !.seen_items = seen_items, !.sources = sources]
    /\ task' = [task EXCEPT !["sched"] = IdleTask]
    /\ UNCHANGED <<sources, interests, seen_items, seen_episodes, bad_items,
                   pending_matches, last_cleanup, shutdown_rx, last_global_check, seen_lock, seen_episodes_lock, pending_lock, meta,
                   session, approving, downloads, reply, now, advances, commands, created>>

\* ------------------------------------------------------------- the commands

\* check_feeds_now up to its source loop
CheckFeedsNow ==
    LET enabled_interests == EnabledInterests(interests)
    IN  /\ task["cmd"].pc = "idle"
        /\ commands > 0
        /\ commands' = commands - 1
        /\ IF enabled_interests = <<>>
           THEN /\ reply' = [op |-> "check_now", arg |-> <<>>, res |-> "Ok"]
                /\ UNCHANGED task
           ELSE /\ task' = [task EXCEPT !["cmd"] =
                        [IdleTask EXCEPT !.pc = "source", !.kind = "check_now",
                                         !.sources = sources,
                                         !.interests = enabled_interests, !.si = 1]]
                /\ UNCHANGED reply
        /\ UNCHANGED <<sources, interests, seen_items, seen_episodes, bad_items,
                       pending_matches, last_cleanup, shutdown_rx, last_global_check, seen_lock, seen_episodes_lock, pending_lock, meta,
                       session, approving, downloads, disk, now, advances, created>>

\* The source ids a command may name: the stored ones, and one never used
SourceIds == {S1.id, S2.id, <<"s", "9">>}

\* rss_toggle_source: the first source with this id gets the flag and the
\* sources are persisted; NotFound when there is none.
ToggleSource(source_id, enabled) ==
    LET found == {k \in 1..Len(sources) : sources[k].id = source_id}
        first == CHOOSE k \in found : \A j \in found : k <= j
        ans(r) == [op |-> "toggle_source", arg |-> source_id, res |-> r]
    IN  /\ commands > 0
        /\ commands' = commands - 1
        /\ IF found = {}
           THEN /\ reply' = ans("NotFound")
                /\ UNCHANGED <<sources, disk>>
           ELSE /\ sources' = [sources EXCEPT ![first].enabled = enabled]
                /\ disk' = [disk EXCEPT !.sources = sources']
                /\ reply' = ans("Ok")
        /\ UNCHANGED <<interests, seen_items, seen_episodes, bad_items, pending_matches,
                       last_cleanup, shutdown_rx, last_global_check, seen_lock, seen_episodes_lock, pending_lock, task, meta, session, approving, downloads,
                       now, advances, created>>

\* A lookup that falls back on the first entry when no entry has the id
find_or_first(list, id) == IF \E k \in 1..Len(list) : list[k].id = id
                           THEN CHOOSE k \in 1..Len(list) :
                                    /\ list[k].id = id
                                    /\ \A j \in 1..(k - 1) : list[j].id # id
                           ELSE 1

\* iter_mut().find(|e| e.id == id): the index of the first entry with this
\* id, or 0
find(list, id) ==
    LET found == {k \in 1..Len(list) : list[k].id = id}
    IN  IF found = {} THEN 0 ELSE CHOOSE k \in found : \A j \in found : k <= j

\* S1 as the settings form sends it back after the user has replaced its
\* URL by a search URL: the other fields are those of S1Failed
S1Searching == [S1Failed EXCEPT !.url = S2.url]

\* The sources an rss_update_source call may carry: an edited one, and one
\* whose id is not in the registry
SourceEdits == {S1Searching, [S1 EXCEPT !.id = <<"s", "9">>]}

\* rss_update_source: the first source with this id is replaced and the
\* sources are persisted; NotFound when there is none.
UpdateSource(source) ==
    LET first == find(sources, source.id)
        ans(r) == [op |-> "update_source", arg |-> source.id, res |-> r]
    IN  /\ commands > 0
        /\ commands' = commands - 1
        /\ IF first = 0
           THEN /\ reply' = ans("NotFound")
                /\ UNCHANGED <<sources, disk>>
           ELSE /\ sources' = [sources EXCEPT ![first] = source]
                /\ disk' = [disk EXCEPT !.sources = sources']
                /\ reply' = ans("Ok")
        /\ UNCHANGED <<interests, seen_items, seen_episodes, bad_items, pending_matches,
                       last_cleanup, shutdown_rx, last_global_check, seen_lock, seen_episodes_lock, pending_lock, task, meta, session,
                       approving, downloads, now, advances, created>>

\* The interests an rss_update_interest call may carry
InterestEdits == {I2Moved, [I1 EXCEPT !.id = <<"i", "9">>]}

\* rss_update_interest
UpdateInterest(interest) ==
    LET first == find(interests, interest.id)
        ans(r) == [op |-> "update_interest", arg |-> interest.id, res |-> r]
    IN  /\ commands > 0
        /\ commands' = commands - 1
        /\ IF first = 0
           THEN /\ reply' = ans("NotFound")
                /\ UNCHANGED <<interests, disk>>
           ELSE /\ interests' = [interests EXCEPT ![first] = interest]
                /\ disk' = [disk EXCEPT !.interests = interests']
                /\ reply' = ans("Ok")
        /\ UNCHANGED <<sources, seen_items, seen_episodes, bad_items, pending_matches,
                       last_cleanup, shutdown_rx, last_global_check, seen_lock, seen_episodes_lock, pending_lock, task, meta, session,
                       approving, downloads, now, advances, created>>

\* The interest ids a command may name: the stored ones, and one never used
InterestIds == {I1.id, I2.id, <<"i", "9">>}

\* rss_toggle_interest
ToggleInterest(interest_id, enabled) ==
    LET first == find(interests, interest_id)
        ans(r) == [op |-> "toggle_interest", arg |-> interest_id, res |-> r]
    IN  /\ commands > 0
        /\ commands' = commands - 1
        /\ IF first = 0
           THEN /\ reply' = ans("NotFound")
                /\ UNCHANGED <<interests, disk>>
           ELSE /\ interests' = [interests EXCEPT ![first].enabled = enabled]
                /\ disk' = [disk EXCEPT !.interests = interests']
                /\ reply' = ans("Ok")
        /\ UNCHANGED <<sources, seen_items, seen_episodes, bad_items, pending_matches,
                       last_cleanup, shutdown_rx, last_global_check, seen_lock, seen_episodes_lock, pending_lock, task, meta, session,
                       approving, downloads, now, advances, created>>

\* The info hashes a mark_bad call is issued with
BadHashes == {<<"h", "1">>}

BadInterestIds == {None, Some(I1.id)}

\* recheck_interest up to its source loop: the task record it starts with, or
\* IdleTask when it returns at once (unknown or disabled interest)
recheck_start(interest_id) ==
    LET found == {k \in 1..Len(interests) : interests[k].id = interest_id}
        first == CHOOSE k \in found : \A j \in found : k <= j
    IN  IF found = {} \/ ~interests[first].enabled THEN IdleTask
        ELSE [IdleTask EXCEPT !.pc = "source", !.kind = "recheck", !.sources = sources,
                              !.interests = <<interests[first]>>, !.si = 1]

\* rss_mark_bad: the bad item is recorded and persisted; with trigger_rescan
\* and an interest id, recheck_interest follows.
MarkBad(info_hash, interest_id, trigger_rescan) ==
    LET bad_item == [info_hash |-> info_hash, title |-> <<"b", "a", "d">>,
                     interest_id |-> interest_id, interest_name |-> None,
                     marked_at |-> now, reason |-> None]
        rescan   == trigger_rescan /\ interest_id # None
    IN  /\ task["cmd"].pc = "idle"
        /\ commands > 0
        /\ commands' = commands - 1
        /\ bad_items' = MapPut(bad_items, info_hash, bad_item)
        /\ disk' = [disk EXCEPT !.bad_items = bad_items']
        /\ task' = [task EXCEPT !["cmd"] =
                        IF rescan THEN recheck_start(Get(interest_id)) ELSE IdleTask]
        /\ reply' = IF rescan /\ task'["cmd"].pc # "idle" THEN reply
                    ELSE [op |-> "mark_bad", arg |-> info_hash, res |-> "Ok"]
        /\ UNCHANGED <<sources, interests, seen_items, seen_episodes, pending_matches,
                       last_cleanup, shutdown_rx, last_global_check, seen_lock, seen_episodes_lock, pending_lock, meta, session, approving, downloads, now,
                       advances, created>>

\* A removal that leaves the match in the queue (the match is only copied)
remove_keeps(matches, idx) == matches

\* Vec::remove(idx) on the queue
remove(matches, idx) == SeqWithout(matches, idx)

\* The position of the match with this id in the queue, or 0
position(matches, match_id) ==
    LET found == {k \in 1..Len(matches) : matches[k].id = match_id}
    IN  IF found = {} THEN 0 ELSE CHOOSE k \in found : \A j \in found : k <= j

\* A link lookup that falls back on the empty link (unwrap_or_default)
uri_of_or_empty(pending) ==
    IF pending.magnet_uri # None THEN pending.magnet_uri
    ELSE IF pending.torrent_url # None THEN pending.torrent_url
    ELSE Some(<<>>)

\* pending.magnet_uri.clone().or(pending.torrent_url.clone())
uri_of(pending) ==
    IF pending.magnet_uri # None THEN pending.magnet_uri ELSE pending.torrent_url

starts_with(s, prefix) == Len(s) >= Len(prefix) /\ SubSeq(s, 1, Len(prefix)) = prefix

is_magnet(uri) == starts_with(uri, <<"m", "a", "g", "n", "e", "t", ":">>)

\* Session::add_torrent: a torrent the session already manages stays as it is
session_add(ses, uri, opts) == IF uri \in DOMAIN ses THEN ses ELSE MapPut(ses, uri, opts)

\* The download path approve resolves: the interest's download_path
approve_path(pending) ==
    LET found == {k \in 1..Len(interests) : interests[k].id = pending.interest_id}
    IN  IF found = {} THEN None
        ELSE interests[CHOOSE k \in found : \A j \in found : k <= j].download_path

\* The match ids a command may name: every id handed out, and one never used
MatchIds == 1..(Len(created) + 1)

\* What the commands of the screener (approve, reject, fetch_metadata) leave
\* alone
screener_frame ==
    <<sources, interests, seen_items, seen_episodes, bad_items, last_cleanup,
      shutdown_rx, last_global_check, seen_lock, seen_episodes_lock, pending_lock, task, disk, now, advances, created>>

\* approve_match up to the end of its critical section on the queue
\* (pending_matches.write()): an id that is not queued ends the call with
\* NotFound; else the match leaves the queue and the call goes on with it.
ApproveStart(match_id) ==
    LET idx == position(pending_matches, match_id)
    IN  /\ commands > 0
        /\ commands' = commands - 1
        /\ IF idx = 0
           THEN /\ reply' = [op |-> "approve", arg |-> match_id, res |-> "NotFound"]
                /\ UNCHANGED <<pending_matches, approving>>
           ELSE /\ pending_matches' = remove(pending_matches, idx)
                /\ approving' = Append(approving, pending_matches[idx])
                /\ UNCHANGED reply
        /\ UNCHANGED <<meta, session, downloads>>
        /\ UNCHANGED screener_frame

\* The rest of approve_match for the k-th call in flight: without a link the
\* call ends with InvalidInput; a .torrent URL is downloaded first, which may
\* fail; then the download collaborator's add is called, which may fail.
ApproveFinish(k) ==
    LET pending == approving[k]
        uri     == uri_of(pending)
        ans(r)  == [op |-> "approve", arg |-> pending.id, res |-> r]
        call    == [match_id |-> pending.id, uri |-> Get(uri),
                    output_folder |-> approve_path(pending)]
    IN  /\ k \in 1..Len(approving)
        /\ approving' = SeqWithout(approving, k)
        /\ IF uri = None
           THEN reply' = ans("InvalidInput") /\ UNCHANGED <<session, downloads>>
           ELSE \/ /\ ~is_magnet(Get(uri))
                   /\ reply' = ans("Rss")
                   /\ UNCHANGED <<session, downloads>>
                \/ /\ reply' = ans("Torrent")
                   /\ downloads' = Append(downloads, call)
                   /\ UNCHANGED session
                \/ /\ reply' = ans("Ok")
                   /\ downloads' = Append(downloads, call)
                   /\ session' = session_add(session, Get(uri),
                        [paused |-> FALSE, output_folder |-> call.output_folder])
        /\ UNCHANGED <<pending_matches, meta, commands>>
        /\ UNCHANGED screener_frame

\* A retain that keeps no match
retain_none(matches, match_id) == <<>>

\* matches.retain(|m| m.id != match_id)
retain_others(matches, match_id) == SelectSeq(matches, LAMBDA m : m.id # match_id)

\* reject_match
Reject(match_id) ==
    /\ commands > 0
    /\ commands' = commands - 1
    /\ pending_matches' = retain_others(pending_matches, match_id)
    /\ reply' = [op |-> "reject", arg |-> match_id, res |-> "Ok"]
    /\ UNCHANGED <<session, approving, downloads, meta>>
    /\ UNCHANGED screener_frame

\* Options that let the torrent run
metadata_add_opts_running == [paused |-> FALSE, output_folder |-> None]

\* AddTorrentOptions of fetch_torrent_metadata_via_session
metadata_add_opts == [paused |-> TRUE, output_folder |-> None]

\* fetch_metadata up to the wait for the metadata: the match is looked up, a
\* .torrent URL is downloaded, the torrent is added to the session paused.
FetchMetadataStart(match_id) ==
    LET idx     == position(pending_matches, match_id)
        pending == pending_matches[idx]
        uri     == uri_of(pending)
        ans(r)  == [op |-> "fetch_metadata", arg |-> match_id, res |-> r]
    IN  /\ meta = None
        /\ commands > 0
        /\ commands' = commands - 1
        /\ UNCHANGED <<pending_matches, approving, downloads>>
        /\ UNCHANGED screener_frame
        /\ IF idx = 0 THEN reply' = ans("NotFound") /\ UNCHANGED <<meta, session>>
           ELSE IF uri = None
                THEN reply' = ans("InvalidInput") /\ UNCHANGED <<meta, session>>
           ELSE \/ /\ ~is_magnet(Get(uri))
                   /\ reply' = ans("Rss")
                   /\ UNCHANGED <<meta, session>>
                \/ /\ reply' = ans("Torrent")
                   /\ UNCHANGED <<meta, session>>
                \/ /\ session' = session_add(session, Get(uri), metadata_add_opts)
                   /\ meta' = Some([match_id |-> match_id, uri |-> Get(uri)])
                   /\ UNCHANGED reply

\* A fetch_metadata that also blanks the title of the match it updates
FetchMetadataFinish_retitling ==
    LET m      == Get(meta)
        idx    == position(pending_matches, m.match_id)
        ans(r) == [op |-> "fetch_metadata", arg |-> m.match_id, res |-> r]
    IN  /\ meta # None
        /\ meta' = None
        /\ UNCHANGED <<commands, approving, downloads>>
        /\ UNCHANGED screener_frame
        /\ session' = MapKeep(session, DOMAIN session \ {m.uri})
        /\ \/ reply' = ans("Torrent") /\ UNCHANGED pending_matches
           \/ /\ reply' = ans("Ok")
              /\ pending_matches' =
                    IF idx = 0 THEN pending_matches
                    ELSE [pending_matches EXCEPT ![idx].metadata = Some(m.uri),
                                                 ![idx].title = <<>>]

\* fetch_metadata from the end of the wait: the torrent is deleted from the
\* session; on a timeout without file list the call fails, else the match,
\* if still queued, gets the metadata.
FetchMetadataFinish ==
    LET m      == Get(meta)
        idx    == position(pending_matches, m.match_id)
        ans(r) == [op |-> "fetch_metadata", arg |-> m.match_id, res |-> r]
    IN  /\ meta # None
        /\ meta' = None
        /\ UNCHANGED <<commands, approving, downloads>>
        /\ UNCHANGED screener_frame
        /\ session' = MapKeep(session, DOMAIN session \ {m.uri})
        /\ \/ reply' = ans("Torrent") /\ UNCHANGED pending_matches
           \/ /\ reply' = ans("Ok")
              /\ pending_matches' =
                    IF idx = 0 THEN pending_matches
                    ELSE [pending_matches EXCEPT ![idx].metadata = Some(m.uri)]

\* RssServiceHandle::stop: the oneshot channel gets its message (stop takes
\* the handle by value, so there is one message at most)
Stop ==
    /\ ~shutdown_rx
    /\ shutdown_rx' = TRUE
    /\ UNCHANGED <<sources, interests, seen_items, seen_episodes, bad_items,
                   pending_matches, last_cleanup, last_global_check, seen_lock, seen_episodes_lock, pending_lock, task,
                   meta, approving, session, downloads, disk, reply, now, advances,
                   commands, created>>

\* The shutdown branch of the loop's select!: with the message in the channel
\* the loop breaks. select! polls its branches in random order, so with a
\* tick ready as well either branch may be the one taken (SchedTick).
SchedExit ==
    /\ task["sched"].pc = "idle"
    /\ shutdown_rx
    /\ task' = [task EXCEPT !["sched"].pc = "stopped"]
    /\ UNCHANGED <<sources, interests, seen_items, seen_episodes, bad_items,
                   pending_matches, last_cleanup, last_global_check, shutdown_rx,
                   seen_lock, seen_episodes_lock, pending_lock, meta, approving, session, downloads, disk, reply, now,
                   advances, commands, created>>

\* The application is quit and started again: the tasks end with the
\* process, RssState::new gives empty collections, and setup loads sources,
\* interests, seen items (those younger than SEEN_ITEMS_MAX_AGE_SECS) and
\* bad items from their stores and starts the service. The queue and the
\* seen-episode ledger have no store.
Restart ==
    /\ commands > 0
    /\ commands' = commands - 1
    /\ sources' = disk.sources
    /\ interests' = disk.interests
    /\ seen_items' = retain_fresh(disk.seen_items, now)
    /\ bad_items' = disk.bad_items
    /\ seen_episodes' = <<>>
    /\ pending_matches' = <<>>
    /\ last_cleanup' = now
    /\ last_global_check' = now - 60
    /\ shutdown_rx' = FALSE
    /\ seen_lock' = None
    /\ seen_episodes_lock' = None
    /\ pending_lock' = None
    /\ task' = [p \in Procs |-> IdleTask]
    /\ meta' = None
    /\ approving' = <<>>
    /\ UNCHANGED <<session, downloads, disk, reply, now, advances, created>>

\* The wall clock moves on
Advance ==
    /\ advances < MaxAdvances
    /\ \A p \in Procs : task[p].pc = "idle"
    /\ meta = None
    /\ approving = <<>>
    /\ \E d \in Delays : now' = now + d
    /\ advances' = advances + 1
    /\ UNCHANGED <<sources, interests, seen_items, seen_episodes, bad_items,
                   pending_matches, last_cleanup, shutdown_rx, last_global_check, seen_lock, seen_episodes_lock, pending_lock, task,
                   meta, session, approving, downloads, disk, reply, commands, created>>

Next ==
    \/ SchedTick
    \/ SchedCleanup
    \/ SchedWriteBack
    \/ SchedPersist
    \/ \E p \in Procs : PollSource(p)
    \/ \E p \in Procs : PollSearch(p)
    \/ \E p \in Procs : PollItem(p)
    \/ \E p \in Procs : PollDecide(p)
    \/ CheckFeedsNow
    \/ \E h \in BadHashes, i \in BadInterestIds, r \in BOOLEAN : MarkBad(h, i, r)
    \/ \E id \in SourceIds, e \in BOOLEAN : ToggleSource(id, e)
    \/ \E source \in SourceEdits : UpdateSource(source)
    \/ \E interest \in InterestEdits : UpdateInterest(interest)
    \/ \E id \in InterestIds, e \in BOOLEAN : ToggleInterest(id, e)
    \/ \E id \in MatchIds : ApproveStart(id)
    \/ \E k \in 1..Len(approving) : ApproveFinish(k)
    \/ \E id \in MatchIds : Reject(id)
    \/ \E id \in MatchIds : FetchMetadataStart(id)
    \/ FetchMetadataFinish
    \/ Advance

Spec == Init /\ [][Next]_vars

\* ------------------------------------------------------------------- claims

\* Task p is inside the item loop of a source
InItemLoop(p) == task[p].pc \in {"item", "locked"}

\* The dedup key of the i-th item of the list task record t goes through
key_at(t, i) == current_key([t EXCEPT !.ii = i])

\* The positions in created of the matches constructed under key
MadeFor(key) == {i \in 1..Len(created) : created[i].key = key}

\* The positions in created' of the matches the step constructs
JustMade == (Len(created) + 1)..Len(created')

\* C1: two polls of one source that run at the same time and come across the
\* same item never both construct a PendingMatch for it. At most one task is
\* between its membership check and its ledger insert; while it is there it
\* holds the mutex and the key it checked is still absent from the ledger; and
\* no key has two matches constructed at one reading of the clock.
C1_ConcurrentPollsMatchOnce ==
    /\ \A p, q \in Procs : task[p].pc = "locked" /\ task[q].pc = "locked" => p = q
    /\ \A p \in Procs :
            task[p].pc = "locked"
                => seen_lock = Some(p) /\ current_key(task[p]) \notin DOMAIN seen_items
    /\ \A i, j \in 1..Len(created) :
            (i < j /\ created[i].key = created[j].key)
                => created[i].match.created_at < created[j].match.created_at

\* Both tasks are inside the item loop of the same document, both are past
\* its first item, and exactly one match was constructed for that item.
C1_BothPolledOneMatch ==
    \E p, q \in Procs :
        /\ p # q
        /\ InItemLoop(p) /\ InItemLoop(q)
        /\ task[p].ii > 1 /\ task[q].ii > 1
        /\ key_at(task[p], 1) = key_at(task[q], 1)
        /\ Cardinality(MadeFor(key_at(task[p], 1))) = 1

C3_NeverSecondMatch ==
    \A i, j \in 1..Len(created) : i < j => created[i].key # created[j].key

\* C3: a PendingMatch is constructed only under a key that is not in the
\* seen-item ledger at that moment, and a key leaves the ledger only when it
\* is at least 60 days old; so a key has no second match for as long as the
\* cleanup keeps it.
C3_NoSecondMatchWhileKeyKept ==
    [][ /\ \A i \in JustMade : created'[i].key \notin DOMAIN seen_items
        /\ \A key \in DOMAIN seen_items \ DOMAIN seen_items' :
                (now - seen_items[key]) * 60 >= MAX_AGE_SECS ]_vars

\* A cleanup pass has run at this reading of the clock, the key of the item
\* the scheduler has just passed is older and survived it, and that key has
\* one match.
C3_KeyKeptAcrossCleanup ==
    /\ last_cleanup = now
    /\ task["sched"].pc = "item"
    /\ task["sched"].ii > 1
    /\ key_at(task["sched"], 1) \in DOMAIN seen_items
    /\ seen_items[key_at(task["sched"], 1)] < now
    /\ Cardinality(MadeFor(key_at(task["sched"], 1))) = 1

\* The stored interest with this id
interest_of(id) == CHOOSE i \in StoredInterests : i.id = id

\* The step is task p's way out of the critical section
Decides(p) == task[p].pc = "locked" /\ task'[p].pc # "locked"

\* The words that mark a quality upgrade
UpgradeWords ==
    { <<"p", "r", "o", "p", "e", "r">>, <<"r", "e", "p", "a", "c", "k">>,
      <<"r", "e", "r", "i", "p">> }

\* Which titles of the catalogue carry one of the words, in any case
names_upgrade ==
    [title \in {i.title : i \in Catalogue} |->
        \E w \in UpgradeWords : contains(to_lowercase(title), w)] @@ <<>>

\* C4: a torrent that is not paused enters the session only in a step that
\* answers an approve with Ok, for the link of the match that this approve
\* call took off the queue; no step changes a torrent the session already
\* holds. So no poll, reject, mark_bad or fetch_metadata starts a download.
C4_DownloadOnlyOnApprove ==
    [][ /\ \A uri \in DOMAIN session \cap DOMAIN session' : session'[uri] = session[uri]
        /\ \A uri \in DOMAIN session' \ DOMAIN session :
                ~session'[uri].paused
                => /\ reply'.op = "approve"
                   /\ reply'.res = "Ok"
                   /\ \E k \in 1..Len(approving) :
                        /\ approving[k].id = reply'.arg
                        /\ uri_of(approving[k]) = Some(uri)
                        /\ approving' = SeqWithout(approving, k)
                   /\ position(pending_matches', reply'.arg) = 0 ]_vars

\* An approve has been answered Ok and the session runs a torrent
C4_ApprovedDownloadRuns ==
    /\ reply.op = "approve"
    /\ reply.res = "Ok"
    /\ position(pending_matches, reply.arg) = 0
    /\ \E uri \in DOMAIN session : ~session[uri].paused

\* C5: among the matches ever constructed for one interest with
\* smart_episode_filter, no two whose titles are not quality upgrades have
\* the same episode identifier.
C5_OneMatchPerEpisode ==
    \A i, j \in 1..Len(created) :
        ( /\ i < j
          /\ created[i].match.interest_id = created[j].match.interest_id
          /\ interest_of(created[i].match.interest_id).smart_episode_filter
          /\ ~names_upgrade[created[i].match.title]
          /\ ~names_upgrade[created[j].match.title]
          /\ episode_id_of[created[i].match.title] # None )
        => episode_id_of[created[i].match.title] # episode_id_of[created[j].match.title]

\* S1 gave a match for I1 with the episode of A3; the scheduler has since
\* searched S2 for I1, marked A3 seen there and constructed no match for it.
C5_EpisodeSuppressedAcrossSources ==
    /\ \E i \in 1..Len(created) :
            /\ created[i].match.source_id = S1.id
            /\ created[i].match.interest_id = I1.id
            /\ ~names_upgrade[created[i].match.title]
            /\ episode_id_of[created[i].match.title] = episode_id_of[A3.title]
    /\ item_key(S2, Some(I1.id), A3) \in DOMAIN seen_items
    /\ \A i \in 1..Len(created) : created[i].match.title # A3.title

C7_NoLinkNeverMatches ==
    [][ /\ \A i \in JustMade :
                created'[i].match.magnet_uri # None \/ created'[i].match.torrent_url # None
        /\ \A p \in Procs :
                ( /\ Decides(p)
                  /\ task[p].items[task[p].ii].magnet_uri = None
                  /\ task[p].items[task[p].ii].torrent_url = None )
                => /\ DOMAIN seen_items' = DOMAIN seen_items \cup {current_key(task[p])}
                   /\ seen_episodes' = seen_episodes
                   /\ created' = created
                   /\ pending_matches' = pending_matches ]_vars

\* A4, which has no link and which the filters of I1 accept, is in the
\* seen-item ledger for S1 and no match was constructed for it.
C7_LinklessItemSeen ==
    /\ A4.magnet_uri = None /\ A4.torrent_url = None
    /\ filters_result[<<I1, A4>>] # None
    /\ item_key(S1, None, A4) \in DOMAIN seen_items
    /\ \A i \in 1..Len(created) : created[i].match.title # A4.title

\* C8: in standard mode the step that decides about an item with a link
\* constructs at most one PendingMatch: none when no interest of the list
\* accepts the item (its filters match and its episode gate does not
\* suppress it), else one, for the first interest in list order that does;
\* the episodes recorded for the other interests stay as they are.
C8_FirstAcceptingInterestOnly ==
    [][ \A p \in Procs :
            LET t       == task[p]
                item    == t.items[t.ii]
                held(k) == /\ t.interests[k].smart_episode_filter
                           /\ ~names_upgrade[item.title]
                           /\ episode_id_of[item.title]
                                \cap EpisodesOf(seen_episodes, t.interests[k].id) # {}
                accepts == {k \in 1..Len(t.interests) :
                                /\ filters_result[<<t.interests[k], item>>] # None
                                /\ ~held(k)}
                first   == CHOOSE k \in accepts : \A j \in accepts : k <= j
            IN  ( /\ Decides(p)
                  /\ t.ik = 0
                  /\ item.magnet_uri # None \/ item.torrent_url # None )
                => IF accepts = {}
                   THEN created' = created /\ seen_episodes' = seen_episodes
                   ELSE /\ Len(created') = Len(created) + 1
                        /\ created'[Len(created')].match.title = item.title
                        /\ created'[Len(created')].match.interest_id
                            = t.interests[first].id
                        /\ \A k \in 1..Len(t.interests) :
                                k # first
                                => EpisodesOf(seen_episodes', t.interests[k].id)
                                   = EpisodesOf(seen_episodes, t.interests[k].id) ]_vars

\* A1 of S1, which the filters of both I1 and I2 accept, has one match, and
\* it is for I1, the first in the list.
C8_QueuedForFirstOfTwo ==
    /\ filters_result[<<I1, A1>>] # None
    /\ filters_result[<<I2, A1>>] # None
    /\ Cardinality(MadeFor(item_key(S1, None, A1))) = 1
    /\ \A i \in MadeFor(item_key(S1, None, A1)) : created[i].match.interest_id = I1.id

\* C9: the step in which a scheduler check is answered 304 changes neither
\* ledger and constructs and queues no match; and the write-back of that tick
\* stores the source with last_checked at the tick time, failure_count 0 and
\* no retry_after.
C9_NotModifiedOnlyResetsSource ==
    [][ /\ \A p \in Procs :
                task'[p].unchanged \ task[p].unchanged # {}
                => /\ seen_items' = seen_items
                   /\ seen_episodes' = seen_episodes
                   /\ created' = created
                   /\ pending_matches' = pending_matches
        /\ (task["sched"].pc = "writeback" /\ task'["sched"].pc = "persist")
            => \A k \in 1..Len(sources') :
                    sources'[k].id \in task["sched"].unchanged
                    => /\ sources'[k].last_checked = Some(task["sched"].now_utc)
                       /\ sources'[k].failure_count = [hi |-> 0, lo |-> 0]
                       /\ sources'[k].retry_after = None ]_vars

\* S1, stored with two failures and a retry time, was answered 304 in this
\* tick and has been written back.
C9_FailedSourceResetBy304 ==
    /\ task["sched"].pc = "persist"
    /\ S1.id \in task["sched"].unchanged
    /\ disk.sources[1].id = S1.id
    /\ disk.sources[1].failure_count = U32(2)
    /\ disk.sources[1].retry_after # None
    /\ sources[1].failure_count = U32(0)
    /\ sources[1].retry_after = None
    /\ sources[1].last_checked = Some(task["sched"].now_utc)

\* C10 as stated: the write-back of a tick stores every source one of whose
\* fetches failed in that tick, standard or placeholder mode, with
\* failure_count one higher (saturating) than the tick found it and with
\* retry_after at the tick time plus the backoff of the new count.
C10_FailedFetchBacksOff ==
    [][ (task["sched"].pc = "writeback" /\ task'["sched"].pc = "persist")
        => \A k \in 1..Len(task["sched"].sources) :
                task["sched"].sources[k].id \in task["sched"].failed
                => /\ sources'[k].failure_count
                        = saturating_add_1(task["sched"].sources[k].failure_count)
                   /\ sources'[k].retry_after
                        = Some(task["sched"].now_utc
                               + calculate_backoff(sources'[k].failure_count)) ]_vars

\* The source with this id is fetched by the scheduler in this step: the
\* head of the source loop requests it (and ends its check, or starts its
\* item loop or its search loop), or the search loop requests it.
SchedFetches(id) ==
    LET t == task["sched"]
        u == task'["sched"]
    IN  /\ t.kind = "tick"
        /\ u # t
        /\ \/ /\ t.pc = "source"
              /\ \/ /\ Len(u.updates) > Len(t.updates)
                       /\ u.updates[Len(u.updates)].id = id
                    \/ /\ u.pc \in {"item", "interest"}
                       /\ u.sources[u.si].id = id
           \/ /\ t.pc = "interest"
              /\ t.sources[t.si].id = id

\* The source of the scheduler's snapshot with this id
snapshot_source(id) ==
    LET t == task["sched"]
    IN  t.sources[CHOOSE k \in 1..Len(t.sources) : t.sources[k].id = id]

\* C11: in every step in which the scheduler fetches a source, that source
\* has no retry_after or the clock has reached it, whether or not its
\* next_check_at has passed.
C11_NoFetchBeforeRetryAfter ==
    [][ \A id \in SourceIds :
            SchedFetches(id)
            => LET source == snapshot_source(id)
               IN  source.retry_after = None \/ now >= Get(source.retry_after) ]_vars

\* A tick has passed over an enabled source whose next_check_at lies behind
\* and whose retry_after lies ahead
C11_DueSourceSkippedInBackoff ==
    LET t == task["sched"]
    IN  /\ t.kind = "tick"
        /\ t.pc = "writeback"
        /\ \E k \in 1..Len(t.sources) :
              /\ t.sources[k].enabled
              /\ t.sources[k].next_check_at # None
              /\ t.now_utc >= Get(t.sources[k].next_check_at)
              /\ t.sources[k].retry_after # None
              /\ now < Get(t.sources[k].retry_after)
              /\ \A j \in 1..Len(t.updates) : t.updates[j].id # t.sources[k].id

\* ------------------------------------------------- the backoff on its own

\* The failure counts a stored source is drawn with: the small ones, and the
\* ones around the limbs' and the type's ends
MaxFailures == 7

FailureCounts ==
    {U32(n) : n \in 0..MaxFailures}
        \cup {[hi |-> 0, lo |-> U16Max], [hi |-> 1, lo |-> 0],
              [hi |-> U16Max, lo |-> U16Max - 1], U32Max}

\* S1 as the scheduler stored it after a check that failed 40 minutes before
\* the start, when the source had failed `failures` times before
S1FailedAfter(failures) ==
    schedule_next(check_failed([S1 EXCEPT !.failure_count = failures], 0 - 40), 0 - 40)

\* A start with S1 at any of these failure counts; no command is issued
BackoffInit ==
    /\ \E failures \in FailureCounts :
            sources = <<S1FailedAfter(failures), [S2 EXCEPT !.enabled = FALSE]>>
    /\ interests = <<I1, I2>>
    /\ seen_items = <<>>
    /\ seen_episodes = <<>>
    /\ bad_items = <<>>
    /\ pending_matches = <<>>
    /\ last_cleanup = 0
    /\ last_global_check = 0 - 60
    /\ shutdown_rx = FALSE
    /\ seen_lock = None
    /\ seen_episodes_lock = None
    /\ pending_lock = None
    /\ task = [p \in Procs |-> IdleTask]
    /\ meta = None
    /\ approving = <<>>
    /\ session = <<>>
    /\ downloads = <<>>
    /\ disk = [sources |-> sources, interests |-> interests,
               seen_items |-> seen_items, bad_items |-> <<>>]
    /\ reply = NoReply
    /\ now = 0
    /\ advances = 0
    /\ created = <<>>
    /\ commands = 0

\* The scheduler alone
BackoffNext ==
    \/ SchedTick
    \/ SchedCleanup
    \/ SchedWriteBack
    \/ SchedPersist
    \/ PollSource("sched")
    \/ PollItem("sched")
    \/ PollDecide("sched")
    \/ Advance

BackoffSpec == BackoffInit /\ [][BackoffNext]_vars

\* The minutes the specification gives for n failures, n >= 1
BackoffTable(n) ==
    IF n.hi = 0 /\ n.lo <= 5
    THEN CASE n.lo = 1 -> 1 [] n.lo = 2 -> 2 [] n.lo = 3 -> 4 [] n.lo = 4 -> 8
           [] n.lo = 5 -> 16
    ELSE 30

\* C12: for the failure_count n of every stored source, backoff(n) is 1, 2,
\* 4, 8, 16 minutes for n = 1..5 and 30 minutes for every larger n up to
\* 2^32 - 1; it is at most 30 and at most backoff(n + 1); the shift amount
\* is at most 5, far below the 64 bits of the shifted u64, and the seconds
\* are at most 1800; and the retry_after a failed check stored is that many
\* minutes after the check.
C12_BackoffTable ==
    \A k \in 1..Len(sources) :
        LET n     == sources[k].failure_count
            shift == MinSmall(saturating_sub_1(n), 5)
        IN  /\ n # U32(0) => calculate_backoff(n) = BackoffTable(n)
            /\ calculate_backoff(n) <= 30
            /\ calculate_backoff(n) <= calculate_backoff(saturating_add_1(n))
            /\ shift \in 0..5
            /\ Pow2(shift) <= 32
            /\ calculate_backoff(n) * 60 <= 1800
            /\ sources[k].retry_after # None
                => /\ n # U32(0)
                   /\ Get(sources[k].retry_after)
                        = Get(sources[k].last_checked) + BackoffTable(n)

\* A source at the largest failure count has failed once more, after the
\* start, and is held back for 30 minutes
C12_SaturatedCountBacksOff ==
    \E k \in 1..Len(sources) :
        /\ sources[k].failure_count = U32Max
        /\ sources[k].last_checked # None
        /\ Get(sources[k].last_checked) >= 0
        /\ sources[k].retry_after = Some(Get(sources[k].last_checked) + 30)

\* The scheduler ends the check of a source in this step (it queues the
\* source for the write-back)
SchedEndsCheck ==
    /\ task["sched"].kind = "tick"
    /\ Len(task'["sched"].updates) = Len(task["sched"].updates) + 1

\* ... and takes the Err arm: only the fetch at the head of the source loop
\* hands an error to the scheduler
SchedTakesErrArm ==
    /\ SchedEndsCheck
    /\ task["sched"].pc = "source"
    /\ task'["sched"].failed # task["sched"].failed

\* The first source of srcs with this id, as a set
stored_source(srcs, id) ==
    {srcs[k] : k \in {k \in 1..Len(srcs) :
                        /\ srcs[k].id = id
                        /\ \A j \in 1..(k - 1) : srcs[j].id # id}}

\* C13: whenever the scheduler ends the check of a source other than by its
\* Err arm (after a full fetch or a 304), the source it queues for the
\* write-back has failure_count 0 and no retry_after; and the write-back
\* stores every queued source whose id is still in the registry as queued.
C13_SuccessResetsBackoff ==
    [][ /\ (SchedEndsCheck /\ ~SchedTakesErrArm)
            => LET updated == task'["sched"].updates[Len(task'["sched"].updates)]
               IN  /\ updated.failure_count = U32(0)
                   /\ updated.retry_after = None
        /\ (task["sched"].pc = "writeback" /\ task'["sched"].pc = "persist")
            => \A j \in 1..Len(task["sched"].updates) :
                  LET updated == task["sched"].updates[j]
                  IN  stored_source(sources, updated.id) # {}
                        => stored_source(sources', updated.id) = {updated} ]_vars

\* The source stored with six failures has been fetched in full after its
\* retry time and is written back without failures
C13_SixFailuresForgotten ==
    /\ task["sched"].pc = "persist"
    /\ disk.sources[1].failure_count = U32(6)
    /\ sources[1].id = disk.sources[1].id
    /\ sources[1].id \in DOMAIN task["sched"].fetched
    /\ sources[1].failure_count = U32(0)
    /\ sources[1].retry_after = None
    /\ sources[1].last_checked = Some(task["sched"].now_utc)

\* ------------------------------------------------------- a scheduled system

\* The steps of the scheduler task, and those of the command task's poll
SchedNext ==
    \/ SchedCleanup
    \/ SchedWriteBack
    \/ SchedPersist
    \/ PollSource("sched")
    \/ PollSearch("sched")
    \/ PollItem("sched")
    \/ PollDecide("sched")

CmdNext ==
    \/ PollSource("cmd")
    \/ PollSearch("cmd")
    \/ PollItem("cmd")
    \/ PollDecide("cmd")

\* The runtime runs every task that can take a step: a tick that has begun
\* goes on, and a command's poll goes on (and so gives the mutex back)
FairSpec == Spec /\ WF_vars(SchedNext) /\ WF_vars(CmdNext)

\* Enabled, past its retry time and due, by the tick's own readings
Checkable(t, source) ==
    /\ source.enabled
    /\ source.retry_after = None \/ t.now_utc >= Get(source.retry_after)
    /\ IF source.next_check_at # None
       THEN t.now_utc >= Get(source.next_check_at)
       ELSE t.due

\* C14: when the scheduler takes the Err arm for a source, the source loop
\* goes on behind that source; when the loop ends, the sources queued for
\* the write-back are all the enabled, due, not backed-off sources of the
\* tick's snapshot, failed or not; and a tick in which a fetch has failed
\* goes on to the end: it writes back and persists, after which the store
\* holds the registry's sources and the seen-item ledger.
C14_FailureDoesNotAbortTick ==
    /\ [][ /\ SchedTakesErrArm
                => /\ task'["sched"].pc = "source"
                   /\ task'["sched"].si = next_source(task["sched"], task["sched"].si) + 1
           /\ (task["sched"].kind = "tick" /\ task["sched"].pc = "source"
                    /\ task'["sched"].pc = "writeback")
                => {task'["sched"].updates[j].id : j \in 1..Len(task'["sched"].updates)}
                     = {task["sched"].sources[k].id : k \in
                            {k \in 1..Len(task["sched"].sources) :
                                Checkable(task["sched"], task["sched"].sources[k])}}
           /\ (task["sched"].kind = "tick" /\ task'["sched"].pc = "idle")
                => /\ task["sched"].pc = "persist"
                   /\ disk'.sources = sources
                   /\ disk'.seen_items = seen_items ]_vars
    /\ (task["sched"].failed # {}) ~> (task["sched"].pc = "idle")

\* In one tick the first source has failed, the second has been checked all
\* the same, and the tick has written both back
C14_SecondSourceCheckedAfterFailure ==
    LET t == task["sched"]
    IN  /\ t.pc = "persist"
        /\ Len(t.updates) = 2
        /\ t.updates[1].id \in t.failed
        /\ t.updates[1].retry_after # None
        /\ t.updates[2].id \notin t.failed
        /\ t.updates[2].failure_count = U32(0)
        /\ sources = <<t.updates[1], t.updates[2]>>

\* A step of the head of a tick (from interval.tick() to the early exit)
\* while no interest is enabled
QuietTickStep ==
    /\ task["sched"].pc \in {"idle", "cleanup"}
    /\ task'["sched"] # task["sched"]
    /\ EnabledInterests(interests) = <<>>

\* C15 as claimed: a tick that finds no interest enabled issues no fetch and
\* changes no source, no entry of either ledger and no pending match.
C15_QuietTickChangesNothing ==
    [][ QuietTickStep
            => /\ task'["sched"].pc \in {"idle", "cleanup"}
               /\ UNCHANGED <<sources, seen_items, seen_episodes, pending_matches,
                              created>> ]_vars

\* C15: a tick that finds no interest enabled issues no fetch, changes no
\* source, no seen-episode entry and no pending match, and adds or rewrites
\* no seen-item entry; the cleanup at the head of the tick may remove
\* seen-item entries, and only ones that are MAX_AGE_SECS old or older.
C15_QuietTickOnlyPurges ==
    [][ QuietTickStep
            => /\ task'["sched"].pc \in {"idle", "cleanup"}
               /\ UNCHANGED <<sources, seen_episodes, pending_matches, created>>
               /\ DOMAIN seen_items' \subseteq DOMAIN seen_items
               /\ \A key \in DOMAIN seen_items' : seen_items'[key] = seen_items[key]
               /\ \A key \in DOMAIN seen_items \ DOMAIN seen_items' :
                        (now - seen_items[key]) * 60 >= MAX_AGE_SECS ]_vars

\* With every interest switched off since the start, a tick has run its
\* cleanup, which purged the ledger's old entry, and has ended
C15_QuietTickPurged ==
    /\ commands = MaxCommands
    /\ EnabledInterests(interests) = <<>>
    /\ task["sched"].pc = "idle"
    /\ now > 0
    /\ last_cleanup = now
    /\ disk.seen_items # <<>>
    /\ seen_items = <<>>
    /\ sources = disk.sources
    /\ pending_matches = <<>>

\* Task p is at a source whose URL holds the search placeholder
AtSearchSource(t) ==
    /\ t.pc \in {"interest", "item", "locked"}
    /\ contains(t.sources[t.si].url, SearchToken)

\* The search loop of task record t ends with this step, or goes on to the
\* next interest in turn
SearchMovesOn(t, u) ==
    \/ u.pc = "interest" /\ u.si = t.si /\ u.ik = t.ik + 1
    \/ /\ t.ik = Len(t.interests)
       /\ u.pc \in {"source", "idle", "writeback"}

\* C16: a poll of a source whose URL contains {search} goes through the
\* interests of the poll in turn (for a tick and for check_feeds_now, the
\* interests enabled when it began) with one fetch each: the fetch is never
\* answered 304 and hands on no etag, whatever the source has stored, and
\* the items it yields are gone through for that interest alone. Each item
\* is decided under the key source:interest:item, absent before and present
\* after; at most one match is constructed, for that interest and under
\* that key, and only that interest's seen episodes may change.
C16_SearchSourcePolledPerInterest ==
    [][ \A p \in Procs :
          LET t   == task[p]
              u   == task'[p]
              src == t.sources[t.si]
              interest == t.interests[t.ik]
              key == src.id \o <<":">> \o interest.id \o <<":">> \o t.items[t.ii].id
          IN  /\ (t.pc \in {"idle", "cleanup"} /\ u.pc = "source"
                    /\ u.kind \in {"tick", "check_now"})
                    => u.interests = SelectSeq(interests, LAMBDA i : i.enabled)
              /\ (t.pc = "source" /\ AtSearchSource(u))
                    => /\ u.pc = "interest"
                       /\ u.ik = 1
                       /\ u.updates = t.updates
              /\ (AtSearchSource(t) /\ u # t)
                    => /\ t.ik \in 1..Len(t.interests)
                       /\ u.unchanged = t.unchanged
                       /\ u.etag = None /\ u.last_modified = None
                       /\ Len(u.updates) > Len(t.updates)
                            => /\ u.updates[Len(u.updates)].etag = src.etag
                               /\ u.updates[Len(u.updates)].last_modified = src.last_modified
                       /\ t.pc = "interest"
                            => \/ /\ u.pc = "item" /\ u.si = t.si /\ u.ik = t.ik /\ u.ii = 1
                                  /\ u.items \in world_feed(search_url_of[<<src.url, interest>>])
                               \/ SearchMovesOn(t, u)
                       /\ t.pc \in {"item", "locked"}
                            => \/ /\ u.pc \in {"item", "locked"} /\ u.si = t.si
                                  /\ u.ik = t.ik /\ u.items = t.items
                               \/ SearchMovesOn(t, u)
                       /\ t.pc = "locked"
                            => /\ key \notin DOMAIN seen_items
                               /\ key \in DOMAIN seen_items'
                               /\ Len(created') <= Len(created) + 1
                               /\ \A j \in JustMade :
                                    /\ created'[j].key = key
                                    /\ created'[j].match.interest_id = interest.id
                                    /\ created'[j].match.source_id = src.id
                               /\ \A id \in DOMAIN seen_episodes' :
                                    id # interest.id
                                    => /\ id \in DOMAIN seen_episodes
                                       /\ seen_episodes'[id] = seen_episodes[id] ]_vars

\* A tick has searched a source that has an etag stored, once for each of
\* the two interests, and has queued one item for each: A2 for I1 alone
\* although I2's filters match it too, and A1 for I2 alone
C16_SearchedWithStoredEtag ==
    LET t == task["sched"]
    IN  /\ t.pc = "writeback"
        /\ Len(t.interests) = 2
        /\ \E j \in 1..Len(t.updates) :
              /\ contains(t.updates[j].url, SearchToken)
              /\ t.updates[j].etag # None
              /\ t.unchanged = {}
              /\ filters_result[<<I2, A2>>] # None
              /\ {<<created[i].match.interest_id, created[i].match.title>> :
                    i \in {i \in 1..Len(created) :
                             created[i].match.source_id = t.updates[j].id}}
                   = {<<I1.id, A2.title>>, <<I2.id, A1.title>>}

\* ------------------------------------------------- the screener's callers

\* The start, with the screener's callers free to issue MaxScreenerCalls
\* commands (which may overlap)
ScreenerInit == Loaded /\ commands = MaxScreenerCalls

\* The scheduler, the clock, and the commands of the screener
ScreenerNext ==
    \/ SchedTick
    \/ SchedCleanup
    \/ SchedWriteBack
    \/ SchedPersist
    \/ PollSource("sched")
    \/ PollSearch("sched")
    \/ PollItem("sched")
    \/ PollDecide("sched")
    \/ \E id \in MatchIds : ApproveStart(id)
    \/ \E k \in 1..Len(approving) : ApproveFinish(k)
    \/ \E id \in MatchIds : Reject(id)
    \/ \E id \in MatchIds : FetchMetadataStart(id)
    \/ FetchMetadataFinish
    \/ Advance

ScreenerSpec == ScreenerInit /\ [][ScreenerNext]_vars

\* An approve call is answered NotFound in this step
ApproveNotFound ==
    /\ commands' < commands
    /\ UNCHANGED <<task, approving, meta, bad_items>>
    /\ reply'.op = "approve"
    /\ reply'.res = "NotFound"

\* An approve call takes a match in this step
ApproveTakes == Len(approving') = Len(approving) + 1

\* C17: an approve call is answered NotFound only for an id that is not in
\* the queue, and then queue, session and download calls stay as they are;
\* an approve call that takes a match takes the one with its id out of the
\* queue and leaves the others in their order. No match is held by two
\* approve calls, none that is held is still queued, and the download
\* collaborator is called at most once for any match.
C17_ApproveTakesMatchOnce ==
    /\ [][ /\ ApproveNotFound
                => /\ position(pending_matches, reply'.arg) = 0
                   /\ UNCHANGED <<pending_matches, session, downloads>>
           /\ ApproveTakes
                => LET taken == approving'[Len(approving')]
                       idx   == position(pending_matches, taken.id)
                   IN  /\ idx # 0
                       /\ pending_matches[idx] = taken
                       /\ pending_matches'
                            = SubSeq(pending_matches, 1, idx - 1)
                                \o SubSeq(pending_matches, idx + 1, Len(pending_matches))
                       /\ \A k \in 1..Len(pending_matches') :
                            pending_matches'[k].id # taken.id
           /\ Len(downloads') > Len(downloads)
                => /\ Len(downloads') = Len(downloads) + 1
                   /\ \E k \in 1..Len(approving) :
                        /\ approving[k].id = downloads'[Len(downloads')].match_id
                        /\ approving' = SubSeq(approving, 1, k - 1)
                                            \o SubSeq(approving, k + 1, Len(approving)) ]_vars
    /\ [](/\ \A j, k \in 1..Len(approving) : approving[j].id = approving[k].id => j = k
          /\ \A k \in 1..Len(approving) : position(pending_matches, approving[k].id) = 0
          /\ \A j, k \in 1..Len(downloads) :
                downloads[j].match_id = downloads[k].match_id => j = k)

\* Two approve calls for one id have overlapped: the first took the match
\* and is still in flight, the second has been answered NotFound
C17_SecondApproveFindsNothing ==
    /\ commands = 0
    /\ Len(approving) = 1
    /\ reply = [op |-> "approve", arg |-> approving[1].id, res |-> "NotFound"]
    /\ downloads = <<>>

\* A reject call is answered in this step (a command that is not answered
\* in its first step starts a poll, takes a match or asks for metadata)
RejectAnswered ==
    /\ commands' < commands
    /\ reply'.op = "reject"
    /\ UNCHANGED <<task, approving, meta, bad_items>>

\* C18: a reject call for an id that is not in the queue is answered
\* NotFound.
C18_RejectUnknownIsNotFound ==
    [][ (RejectAnswered /\ position(pending_matches, reply'.arg) = 0)
            => reply'.res = "NotFound" ]_vars

\* A command on the registry is answered in this step (a command that is
\* not answered in its first step starts a poll, takes a match or asks for
\* metadata)
RegistryCommand(ops) ==
    /\ commands' < commands
    /\ reply'.op \in ops
    /\ UNCHANGED <<task, approving, meta, bad_items>>

\* list' is list with the one entry at index k changed, and that entry still
\* has the id
OnlyEntryChanged(list, list2, k, id) ==
    /\ Len(list2) = Len(list)
    /\ list2[k].id = id
    /\ \A j \in 1..Len(list) : j # k => list2[j] = list[j]

\* C19: rss_update_source, rss_toggle_source, rss_update_interest and
\* rss_toggle_interest with an id that no entry of their registry has are
\* answered NotFound and leave both registries as they are; with an id that
\* an entry has they are answered Ok, the first entry with the id is
\* replaced by the one sent (or gets the flag sent, its other fields kept),
\* and every other entry of both registries stays.
C19_RegistryEditsOneEntry ==
    [][ /\ RegistryCommand({"update_source", "toggle_source"})
            => LET with_id == {k \in 1..Len(sources) : sources[k].id = reply'.arg}
               IN  /\ interests' = interests
                   /\ with_id = {}
                        => reply'.res = "NotFound" /\ sources' = sources
                   /\ with_id # {}
                        => /\ reply'.res = "Ok"
                           /\ \E k \in with_id :
                                /\ \A j \in with_id : k <= j
                                /\ OnlyEntryChanged(sources, sources', k, reply'.arg)
                                /\ IF reply'.op = "toggle_source"
                                   THEN sources'[k] = [sources[k] EXCEPT !.enabled =
                                                            sources'[k].enabled]
                                   ELSE sources'[k] \in SourceEdits
        /\ RegistryCommand({"update_interest", "toggle_interest"})
            => LET with_id == {k \in 1..Len(interests) : interests[k].id = reply'.arg}
               IN  /\ sources' = sources
                   /\ with_id = {}
                        => reply'.res = "NotFound" /\ interests' = interests
                   /\ with_id # {}
                        => /\ reply'.res = "Ok"
                           /\ \E k \in with_id :
                                /\ \A j \in with_id : k <= j
                                /\ OnlyEntryChanged(interests, interests', k, reply'.arg)
                                /\ IF reply'.op = "toggle_interest"
                                   THEN interests'[k] = [interests[k] EXCEPT !.enabled =
                                                            interests'[k].enabled]
                                   ELSE interests'[k] \in InterestEdits ]_vars

\* rss_update_interest has replaced the second interest by the edited one
\* and left the first interest and the sources as the store had them
C19_SecondInterestReplaced ==
    /\ reply = [op |-> "update_interest", arg |-> I2.id, res |-> "Ok"]
    /\ interests = <<I1, I2Moved>>
    /\ disk.interests = interests
    /\ sources = disk.sources

\* The match with this id has left the queue and the last command answered
\* was a reject of this id
Rejected(id) ==
    /\ reply.op = "reject"
    /\ reply.arg = id
    /\ id \in 1..Len(created)
    /\ position(pending_matches, id) = 0

\* What a reject call does and leaves alone: the match with the id leaves
\* the queue, the others stay in their order; no download call, no change of
\* the session, of a ledger, of a source or of an interest
RejectFrame ==
    RejectAnswered
    => LET idx == position(pending_matches, reply'.arg)
       IN  /\ reply'.res = "Ok"
           /\ pending_matches' =
                IF idx = 0 THEN pending_matches
                ELSE SubSeq(pending_matches, 1, idx - 1)
                        \o SubSeq(pending_matches, idx + 1, Len(pending_matches))
           /\ UNCHANGED <<downloads, session, approving, seen_items, seen_episodes,
                          sources, interests, created>>

\* C20 as claimed: reject has the frame above, and no later step constructs
\* a match under the key of a rejected match.
C20_RejectedNeverQueuedAgain ==
    [][ /\ RejectFrame
        /\ \A id \in 1..Len(created) :
                Rejected(id)
                => \A j \in JustMade : created'[j].key # created[id].key ]_vars

\* C20: reject has the frame above; while the key of a rejected match is in
\* the seen-item ledger no step constructs a match under it; and the key
\* leaves the ledger only when it is MAX_AGE_SECS old or older.
C20_RejectedNotQueuedWhileKeyKept ==
    [][ /\ RejectFrame
        /\ \A id \in 1..Len(created) :
                LET key == created[id].key
                IN  (Rejected(id) /\ key \in DOMAIN seen_items)
                    => /\ \A j \in JustMade : created'[j].key # key
                       /\ key \notin DOMAIN seen_items'
                            => (now - seen_items[key]) * 60 >= MAX_AGE_SECS ]_vars

\* One of two queued matches has been rejected, the other is still queued,
\* and a later poll stands at the rejected item
C20_PollMeetsRejectedItem ==
    \E id \in 1..Len(created) :
        /\ Rejected(id)
        /\ pending_matches # <<>>
        /\ downloads = <<>>
        /\ \E p \in Procs :
              /\ task[p].pc = "item"
              /\ current_key(task[p]) = created[id].key
              /\ created[id].key \in DOMAIN seen_items
              /\ now > created[id].match.created_at

\* ------------------------------------------------ the screener on any queue

\* PendingMatch records as the type admits them: one with a magnet URI, one
\* with a torrent URL and one with neither (both fields are Options). The
\* polls construct none of the third kind; approve_match tests for it.
TypedMatches ==
    <<NewPending(1, S1, I1, A1, 0), NewPending(2, S1, I1, A3, 0),
      NewPending(3, S1, I1, A4, 0)>>

\* The queues made of these records, each at most once, in any order
TypedQueues ==
    {q \in UNION {[1..n -> 1..Len(TypedMatches)] : n \in 0..Len(TypedMatches)} :
        \A i, j \in 1..Len(q) : q[i] = q[j] => i = j}

\* A start with any of these queues, the keys of the records in the
\* seen-item ledger, and the screener's callers free to issue
\* MaxScreenerCalls commands
ApproveInit ==
    /\ \E q \in TypedQueues : pending_matches = [k \in 1..Len(q) |-> TypedMatches[q[k]]]
    /\ created = [i \in 1..Len(TypedMatches) |->
                    [key   |-> Colon(S1.id, <<"a", DigitChars[i + 1]>>),
                     match |-> TypedMatches[i]]]
    /\ sources = <<S1, [S2 EXCEPT !.enabled = FALSE]>>
    /\ interests = <<I1, I2>>
    /\ seen_items = [key \in {created[i].key : i \in 1..Len(created)} |-> 0]
    /\ seen_episodes = <<>>
    /\ bad_items = <<>>
    /\ last_cleanup = 0
    /\ last_global_check = 0
    /\ shutdown_rx = FALSE
    /\ seen_lock = None
    /\ seen_episodes_lock = None
    /\ pending_lock = None
    /\ task = [p \in Procs |-> IdleTask]
    /\ meta = None
    /\ approving = <<>>
    /\ session = <<>>
    /\ downloads = <<>>
    /\ disk = [sources |-> sources, interests |-> interests,
               seen_items |-> seen_items, bad_items |-> <<>>]
    /\ reply = NoReply
    /\ now = 0
    /\ advances = 0
    /\ commands = MaxScreenerCalls

\* The commands of the screener alone
ApproveNext ==
    \/ \E id \in MatchIds : ApproveStart(id)
    \/ \E k \in 1..Len(approving) : ApproveFinish(k)
    \/ \E id \in MatchIds : Reject(id)
    \/ \E id \in MatchIds : FetchMetadataStart(id)
    \/ FetchMetadataFinish

ApproveSpec == ApproveInit /\ [][ApproveNext]_vars

\* The approve call in flight at index k ends in this step
ApproveEnds(k) ==
    /\ k \in 1..Len(approving)
    /\ approving' = SeqWithout(approving, k)

\* C21: the step that ends an approve call whose match has neither a magnet
\* URI nor a torrent URL answers the call with InvalidInput and neither calls
\* the download collaborator nor changes the session; and no call of the
\* download collaborator is ever made for a match without a link.
C21_NoLinkIsInvalidInput ==
    /\ [][ \A k \in 1..Len(approving) :
              ( /\ ApproveEnds(k)
                /\ approving[k].magnet_uri = None
                /\ approving[k].torrent_url = None )
              => /\ reply' = [op |-> "approve", arg |-> approving[k].id,
                              res |-> "InvalidInput"]
                 /\ UNCHANGED <<downloads, session>> ]_vars
    /\ [](\A j \in 1..Len(downloads) :
              \/ created[downloads[j].match_id].match.magnet_uri # None
              \/ created[downloads[j].match_id].match.torrent_url # None)

\* The queue held a match without a link; an approve call took it and was
\* answered InvalidInput, and the download collaborator was never called
C21_LinklessApproveRefused ==
    /\ reply.op = "approve"
    /\ reply.res = "InvalidInput"
    /\ reply.arg \in 1..Len(created)
    /\ created[reply.arg].match.magnet_uri = None
    /\ created[reply.arg].match.torrent_url = None
    /\ position(pending_matches, reply.arg) = 0
    /\ approving = <<>>
    /\ downloads = <<>>

\* A mark_bad call is answered in this step without a rescan having started
MarkBadAnswered ==
    /\ commands' < commands
    /\ reply'.op = "mark_bad"
    /\ UNCHANGED <<task, approving, meta>>

\* The interests whose turn it is for the item task record t is at, whose
\* filters accept the item and whose seen episodes do not hold it back
Accepting(t) ==
    LET item == t.items[t.ii]
        turn == IF t.ik > 0 THEN {t.ik} ELSE 1..Len(t.interests)
    IN  {k \in turn :
            /\ filters_result[<<t.interests[k], item>>] # None
            /\ ~ ( /\ t.interests[k].smart_episode_filter
                   /\ ~names_upgrade[item.title]
                   /\ episode_id_of[item.title]
                        \cap EpisodesOf(seen_episodes, t.interests[k].id) # {} )}

\* C22: a mark_bad call that starts no rescan puts the entry for its info
\* hash into the bad-item map, stores the map, and changes nothing else: the
\* queue, both ledgers, the registries, the session and the download calls
\* stay as they are. And whatever the bad-item map holds, the step that
\* decides about an item queues it exactly when the item has a link and an
\* interest in turn accepts it.
C22_MarkBadOnlyRecords ==
    [][ /\ MarkBadAnswered
            => /\ DOMAIN bad_items' = DOMAIN bad_items \cup {reply'.arg}
               /\ bad_items'[reply'.arg].info_hash = reply'.arg
               /\ \A h \in DOMAIN bad_items : h # reply'.arg => bad_items'[h] = bad_items[h]
               /\ disk' = [disk EXCEPT !.bad_items = bad_items']
               /\ UNCHANGED <<pending_matches, seen_items, seen_episodes, sources,
                              interests, session, downloads, created>>
        /\ \A p \in Procs :
                Decides(p)
                => LET item == task[p].items[task[p].ii]
                   IN  IF (item.magnet_uri # None \/ item.torrent_url # None)
                            /\ Accepting(task[p]) # {}
                       THEN /\ Len(created') = Len(created) + 1
                            /\ pending_matches'
                                = Append(pending_matches, created'[Len(created')].match)
                       ELSE UNCHANGED <<created, pending_matches>> ]_vars

\* A mark_bad call without rescan was answered while a match was queued or
\* being queued; the match is still queued, and a poll at a later reading of
\* the clock has queued another item with the bad-item map in place
C22_QueuedBeforeAndAfterMark ==
    /\ reply.op = "mark_bad"
    /\ task["cmd"].kind = "none"
    /\ \E h \in DOMAIN bad_items :
        \E i, j \in 1..Len(created) :
            /\ disk.bad_items = bad_items
            /\ created[i].match.created_at <= bad_items[h].marked_at
            /\ bad_items[h].marked_at < created[j].match.created_at
            /\ position(pending_matches, i) # 0
            /\ position(pending_matches, j) # 0

\* Task p is inside a poll: at the head of its source loop, in a search loop
\* or in an item loop
Polling(p) == task[p].pc \in {"source", "interest", "item", "locked"}

ShutdownInit == Loaded /\ commands = 0

ShutdownNext ==
    \/ SchedTick
    \/ SchedCleanup
    \/ SchedWriteBack
    \/ SchedPersist
    \/ PollSource("sched")
    \/ PollSearch("sched")
    \/ PollItem("sched")
    \/ PollDecide("sched")
    \/ Advance
    \/ Stop
    \/ SchedExit

\* The runtime runs the scheduler task while it can take a step, and the
\* random order of select! takes the shutdown branch sooner or later when it
\* is ready at the loop head again and again
ShutdownSpec ==
    ShutdownInit /\ [][ShutdownNext]_vars /\ WF_vars(SchedNext) /\ SF_vars(SchedExit)

\* C24 as claimed: once stop() has sent its message the loop exits in the
\* end; it exits only from the loop head, so a tick in flight goes on through
\* its write-back and its persistence; and no tick begins while the message
\* is in the channel.
C24_StopEndsPolling ==
    /\ shutdown_rx ~> (task["sched"].pc = "stopped")
    /\ (shutdown_rx /\ task["sched"].pc \in {"source", "interest", "item", "locked"})
            ~> (task["sched"].pc = "persist")
    /\ [][ /\ task'["sched"].pc = "stopped" => task["sched"].pc \in {"idle", "stopped"}
           /\ (shutdown_rx /\ task["sched"].pc = "idle")
                => task'["sched"].pc \in {"idle", "stopped"} ]_vars

\* ------------------------------------------------------------- the restart

\* The scheduler, the clock, approve and reject, and a user who may quit and
\* start the application again
RestartNext ==
    \/ SchedTick
    \/ SchedCleanup
    \/ SchedWriteBack
    \/ SchedPersist
    \/ PollSource("sched")
    \/ PollSearch("sched")
    \/ PollItem("sched")
    \/ PollDecide("sched")
    \/ \E id \in MatchIds : ApproveStart(id)
    \/ \E k \in 1..Len(approving) : ApproveFinish(k)
    \/ \E id \in MatchIds : Reject(id)
    \/ Advance
    \/ Restart

RestartSpec == Init /\ [][RestartNext]_vars

\* C25 as claimed: the step that constructs a match queues it, and a queued
\* match whose key the seen-item ledger holds leaves the queue only in a step
\* in which an approve call takes it or a reject call for it is answered.
C25_QueuedUntilScreened ==
    [][ /\ \A j \in JustMade :
              /\ created'[j].key \in DOMAIN seen_items'
              /\ position(pending_matches', created'[j].match.id) # 0
        /\ \A id \in 1..Len(created) :
              ( /\ position(pending_matches, id) # 0
                /\ position(pending_matches', id) = 0
                /\ created[id].key \in DOMAIN seen_items' )
              => \/ /\ ApproveTakes
                    /\ approving'[Len(approving')].id = id
                 \/ /\ reply' = [op |-> "reject", arg |-> id, res |-> "Ok"]
                    /\ commands' < commands ]_vars

\* ------------------------------------------------- the filter evaluator alone

\* How many filters an interest of FilterSpec has at most
MaxFilters == 3

\* The largest size bound (in MB) a SizeRange filter of FilterSpec is
\* written with, and the bounds drawn (in steps that meet the 100 and 500 of
\* the specification's scenario)
MaxSizeBound == 600

SizeBounds == {n \in 0..MaxSizeBound : n % 100 = 0}

RECURSIVE ToDecimal(_)
\* u64::to_string
ToDecimal(n) ==
    IF n < 10 THEN <<DigitChars[n + 1]>>
    ELSE ToDecimal(n \div 10) \o <<DigitChars[(n % 10) + 1]>>

\* FeedFilter { SizeRange, "min-max" }
SizeRangeFilter(min_mb, max_mb) ==
    Filter("SizeRange", ToDecimal(min_mb) \o <<"-">> \o ToDecimal(max_mb))

\* The filters an interest of FilterSpec is made of: one of each type, the
\* first and the last also switched off
FilterPool ==
    { Filter("MustContain", <<"s", "h", "o", "w">>),
      Filter("MustNotContain", <<"1", "0", "8", "0", "P">>),
      Filter("Regex", <<"S", "\\", "d", "+", "E">>),
      Filter("Wildcard", <<"*", ".", "I", "S", "O">>),
      SizeRangeFilter(100, 500),
      [Filter("MustContain", <<"s", "h", "o", "w">>) EXCEPT !.enabled = FALSE],
      [SizeRangeFilter(100, 500) EXCEPT !.enabled = FALSE] }

\* The filter lists drawn: up to MaxFilters filters of the pool in any
\* order, and the single SizeRange filters over the bounds
FilterLists ==
    UNION {[1..n -> FilterPool] : n \in 0..MaxFilters}
        \cup {<<SizeRangeFilter(lo, hi)>> : lo \in SizeBounds, hi \in SizeBounds}

\* The items evaluated: two of the catalogue, whose size is unknown, and
\* one with each of the sizes around 100 MB, 500 MB and at 1024 MB
FilterSizes == {104857599, 104857600, 525336575, 525336576, 1073741824}

FilterItems == {A1, A5} \cup {[A5 EXCEPT !.size = Some(n)] : n \in FilterSizes}

\* A start with one interest whose filters and logic are drawn
FilterInit ==
    /\ \E filters \in FilterLists, logic \in {"And", "Or"} :
            interests = <<[I1 EXCEPT !.filters = filters, !.filter_logic = logic]>>
    /\ sources = <<S1>>
    /\ seen_items = <<>>
    /\ seen_episodes = <<>>
    /\ bad_items = <<>>
    /\ pending_matches = <<>>
    /\ last_cleanup = 0
    /\ last_global_check = 0
    /\ shutdown_rx = FALSE
    /\ seen_lock = None
    /\ seen_episodes_lock = None
    /\ pending_lock = None
    /\ task = [p \in Procs |-> IdleTask]
    /\ meta = None
    /\ approving = <<>>
    /\ session = <<>>
    /\ downloads = <<>>
    /\ disk = [sources |-> sources, interests |-> interests,
               seen_items |-> seen_items, bad_items |-> <<>>]
    /\ reply = NoReply
    /\ now = 0
    /\ advances = 0
    /\ commands = 0
    /\ created = <<>>

\* The filter step of an item loop for the interest: the evaluator's answer
\* for the item is kept in reply
EvaluateItem(item) ==
    /\ reply' = [op |-> "evaluate", arg |-> item,
                 res |-> evaluate_filters_with_logic(item, interests[1].filters,
                                                     interests[1].filter_logic)]
    /\ UNCHANGED <<sources, interests, seen_items, seen_episodes, bad_items,
                   pending_matches, last_cleanup, last_global_check, shutdown_rx,
                   seen_lock, seen_episodes_lock, pending_lock, task, meta, approving, session, downloads, disk, now,
                   advances, commands, created>>

FilterNext == \E item \in FilterItems : EvaluateItem(item)

FilterSpec == FilterInit /\ [][FilterNext]_vars

\* The indices of the enabled filters of the interest that the item passes
Passing(item) ==
    {k \in 1..Len(interests[1].filters) :
        /\ interests[1].filters[k].enabled
        /\ evaluate_single_filter(item, interests[1].filters[k])}

\* C26: for the item evaluated and the filters of the interest: with no
\* enabled filter the answer is a match described as "no filters"; else,
\* under And the answer is a match exactly when every enabled filter passes,
\* under Or exactly when at least one does; the description of a match names
\* the enabled filters that pass and no other; the answer is the same when
\* the disabled filters are left out; and when every enabled filter passes,
\* And and Or give the same answer.
C26_FilterLogic ==
    reply.op = "evaluate"
    => LET item    == reply.arg
           filters == interests[1].filters
           logic   == interests[1].filter_logic
           enabled == {k \in 1..Len(filters) : filters[k].enabled}
           pass    == Passing(item)
       IN  /\ enabled = {} => reply.res = Some(<<"no filters">>)
           /\ (enabled # {} /\ logic = "And") => (reply.res # None <=> pass = enabled)
           /\ (enabled # {} /\ logic = "Or") => (reply.res # None <=> pass # {})
           /\ (enabled # {} /\ reply.res # None)
                => {Get(reply.res)[j] : j \in 1..Len(Get(reply.res))}
                    = {<<filters[k].filter_type, filters[k].value>> : k \in pass}
           /\ reply.res = evaluate_filters_with_logic(
                            item, SelectSeq(filters, LAMBDA f : f.enabled), logic)
           /\ pass = enabled
                => evaluate_filters_with_logic(item, filters, "And")
                    = evaluate_filters_with_logic(item, filters, "Or")

\* Under Or, an item that passes one enabled filter and fails another is a
\* match although a disabled filter of the list would turn it down
C26_OrMatchWithFailingFilter ==
    /\ reply.op = "evaluate"
    /\ interests[1].filter_logic = "Or"
    /\ reply.res # None
    /\ \E i, j, k \in 1..Len(interests[1].filters) :
          /\ i \in Passing(reply.arg)
          /\ interests[1].filters[j].enabled /\ j \notin Passing(reply.arg)
          /\ ~interests[1].filters[k].enabled
          /\ ~evaluate_single_filter(reply.arg, interests[1].filters[k])

\* C27: when the interest has the one filter SizeRange "lo-hi", the answer
\* for the item evaluated is a match if the item's size is unknown, whatever
\* lo and hi are; for a known size it is a match exactly when
\* lo <= size / 1048576 <= hi in whole numbers, both ends included. So
\* "100-500" turns down an item of 1,073,741,824 bytes.
C27_SizeRangeInclusive ==
    reply.op = "evaluate"
    => LET item == reply.arg
       IN  /\ \A lo, hi \in SizeBounds :
                interests[1].filters = <<SizeRangeFilter(lo, hi)>>
                => (reply.res # None)
                    = \/ item.size = None
                      \/ \E size \in item.size :
                            /\ lo <= size \div (1024 * 1024)
                            /\ size \div (1024 * 1024) <= hi
           /\ ( /\ interests[1].filters
                    = <<Filter("SizeRange", <<"1", "0", "0", "-", "5", "0", "0">>)>>
                /\ item.size = Some(1073741824) )
                => reply.res = None

\* The filter "100-500" alone has turned down the item of 1,073,741,824
\* bytes, which it takes for 1024 MB
C27_LargeItemTurnedDown ==
    /\ reply.op = "evaluate"
    /\ interests[1].filters = <<Filter("SizeRange", <<"1", "0", "0", "-", "5", "0", "0">>)>>
    /\ interests[1].filters = <<SizeRangeFilter(100, 500)>>
    /\ reply.arg.size = Some(1073741824)
    /\ Get(reply.arg.size) \div BytesPerMB = 1024
    /\ reply.res = None

\* ----------------------------------------------------------------- C28

\* The scheduler's tick is between the start of its source loop and its
\* write-back
TickInSourceLoop ==
    /\ task["sched"].kind = "tick"
    /\ task["sched"].pc \in {"source", "interest", "item", "locked", "writeback"}

\* The positions of the tick's source list that the source loop has dealt
\* with: those before the current one, and the current one once its check
\* has begun
TickDealtWith ==
    LET t == task["sched"]
    IN  {j \in 1..Len(t.sources) :
            \/ j < t.si
            \/ j = t.si /\ t.pc \in {"interest", "item", "locked"}}

\* The positions of the tick's source list whose source the tick has checked
\* or is checking
TickChecked ==
    LET t == task["sched"]
    IN  {j \in TickDealtWith :
            \/ \E u \in 1..Len(t.updates) : t.updates[u].id = t.sources[j].id
            \/ j = t.si /\ t.pc \in {"interest", "item", "locked"}}

\* The source is due at the tick time: its own next check time is set and
\* not later than the tick time, or it is unset and the global interval has
\* elapsed since the last global pass
DueAtTick(source) ==
    LET tick_time == task["sched"].now_utc
    IN  \/ \E next_check \in source.next_check_at : next_check <= tick_time
        \/ /\ source.next_check_at = None
           /\ tick_time - last_global_check >= rss_check_interval_minutes

\* C28: in a tick with at least one enabled interest, a source the loop has
\* dealt with is checked exactly when it is enabled, its retry time (if any)
\* is not ahead, and it is due: its next_check_at is set and not later than
\* the tick time, or unset with the global check interval elapsed since the
\* last global pass. A disabled source, one in backoff and one that is not
\* due are not fetched in that tick.
C28_CheckedExactlyWhenDue ==
    TickInSourceLoop
    => LET t == task["sched"]
       IN  /\ t.interests # <<>>
           /\ \A j \in TickDealtWith :
                LET source == t.sources[j]
                IN  /\ (j \in TickChecked)
                        = /\ source.enabled
                          /\ \A retry \in source.retry_after : retry <= now
                          /\ DueAtTick(source)
                    /\ j \notin TickChecked
                        => /\ source.id \notin t.failed \cup t.unchanged
                           /\ source.id \notin DOMAIN t.fetched

\* The source loop of a tick has ended; it has passed over an enabled source
\* without retry time whose next_check_at is unset, the global interval not
\* having elapsed, and over an enabled source whose next_check_at is ahead
C28_NotDueSourcesPassedOver ==
    LET t == task["sched"]
    IN  /\ t.kind = "tick"
        /\ t.pc = "writeback"
        /\ t.now_utc - last_global_check < rss_check_interval_minutes
        /\ \E j \in 1..Len(t.sources) :
                /\ t.sources[j].enabled
                /\ t.sources[j].retry_after = None
                /\ t.sources[j].next_check_at = None
                /\ j \notin TickChecked
        /\ \E j \in 1..Len(t.sources) :
                /\ t.sources[j].enabled
                /\ t.sources[j].retry_after = None
                /\ \E next_check \in t.sources[j].next_check_at : next_check > t.now_utc
                /\ j \notin TickChecked

\* ----------------------------------------------------------------- C29

\* The scheduler's write-back step
WriteBackStep ==
    /\ task["sched"].pc = "writeback"
    /\ task'["sched"].pc = "persist"

\* The interval that applies to a source: its own if it has one, else the
\* global one
IntervalOf(source) ==
    IF source.check_interval = None THEN rss_check_interval_minutes
    ELSE Get(source.check_interval)

\* C29: once the scheduler has checked a source in a tick (the check having
\* succeeded, been answered "not modified", or failed), the write-back of
\* that tick leaves the stored source with last_checked equal to the tick
\* time and next_check_at equal to the tick time plus the source's own check
\* interval if it has one, else plus the global interval; and every source
\* the tick fetched, found unchanged or failed on is among those written
\* back.
C29_CheckedSourceRescheduled ==
    [][WriteBackStep
        => LET t == task["sched"]
               Checked == t.failed \cup t.unchanged \cup DOMAIN t.fetched
                            \cup {t.updates[u].id : u \in 1..Len(t.updates)}
           IN  /\ \A id \in t.failed \cup t.unchanged \cup DOMAIN t.fetched :
                    \E u \in 1..Len(t.updates) : t.updates[u].id = id
               /\ \A k \in 1..Len(sources') :
                    /\ sources'[k].id \in Checked
                    /\ \A j \in 1..(k - 1) : sources'[j].id # sources'[k].id
                    => /\ sources'[k].last_checked = Some(t.now_utc)
                       /\ sources'[k].next_check_at
                            = Some(t.now_utc + IntervalOf(sources'[k]))]_vars

\* The registry after a write-back holds a source with an interval of its
\* own that the tick checked, rescheduled by that interval, and a source
\* without one whose check failed in the tick, rescheduled by the global
\* interval
C29_OwnAndGlobalInterval ==
    LET t == task["sched"]
    IN  /\ t.kind = "tick"
        /\ t.pc = "persist"
        /\ \E k \in 1..Len(sources) :
                /\ sources[k].check_interval # None
                /\ IntervalOf(sources[k]) # rss_check_interval_minutes
                /\ sources[k].last_checked = Some(t.now_utc)
                /\ sources[k].next_check_at = Some(t.now_utc + IntervalOf(sources[k]))
        /\ \E k \in 1..Len(sources) :
                /\ sources[k].id \in t.failed
                /\ sources[k].check_interval = None
                /\ sources[k].retry_after # None
                /\ sources[k].last_checked = Some(t.now_utc)
                /\ sources[k].next_check_at = Some(t.now_utc + rss_check_interval_minutes)

\* ----------------------------------------------------------------- C30

\* The fields of a source that the user configures
UserFields(source) ==
    [name |-> source.name, url |-> source.url, enabled |-> source.enabled,
     check_interval |-> source.check_interval,
     use_guid_dedup |-> source.use_guid_dedup]

\* C30: a scheduler tick changes, in the sources it checked, only the timing,
\* cache-token and failure fields: its write-back leaves the registry with
\* the same sources in the same places, and in each of them name, url,
\* enabled, check interval and use_guid_dedup are what the last user command
\* before the write-back left there, also when rss_update_source or
\* rss_toggle_source ran after the tick took its snapshot.
C30_TickKeepsUserFields ==
    [][WriteBackStep
        => /\ Len(sources') = Len(sources)
           /\ \A k \in 1..Len(sources) :
                /\ sources'[k].id = sources[k].id
                /\ UserFields(sources'[k]) = UserFields(sources[k])]_vars

\* ----------------------------------------------------------------- C31

\* The ids of the matches in a queue
QueuedIds(queue) == {queue[k].id : k \in 1..Len(queue)}

\* A fetch_metadata call ends in this step with the metadata in hand
MetadataFetched ==
    /\ meta # None
    /\ meta' = None
    /\ reply'.op = "fetch_metadata"
    /\ reply'.res = "Ok"

\* C31: a PendingMatch in the queue is never changed, except that a
\* fetch_metadata call that ends with the metadata sets the metadata field of
\* the match with its id. In that step no other field and no other match
\* changes and the queue holds the same matches in the same places: a match
\* approved or rejected while the metadata was being fetched is not put back.
C31_OnlyMetadataAttached ==
    [][ /\ \A j \in 1..Len(pending_matches), k \in 1..Len(pending_matches') :
                pending_matches[j].id = pending_matches'[k].id
                => /\ [pending_matches'[k] EXCEPT !.metadata = None]
                        = [pending_matches[j] EXCEPT !.metadata = None]
                   /\ pending_matches'[k].metadata # pending_matches[j].metadata
                        => /\ MetadataFetched
                           /\ pending_matches[j].id = Get(meta).match_id
                           /\ pending_matches'[k].metadata # None
        /\ MetadataFetched
            => /\ Len(pending_matches') = Len(pending_matches)
               /\ \A k \in 1..Len(pending_matches) :
                    pending_matches'[k].id = pending_matches[k].id ]_vars

\* A fetch_metadata call has ended with the metadata for a match that was
\* rejected or approved during the fetch, and the match is not in the queue,
\* while another match is
C31_FetchedForScreenedMatch ==
    /\ reply.op = "fetch_metadata"
    /\ reply.res = "Ok"
    /\ meta = None
    /\ reply.arg \notin QueuedIds(pending_matches)
    /\ pending_matches # <<>>

\* ----------------------------------------------------------------- C32

\* The scheduler's cleanup pass
CleanupStep ==
    /\ task["sched"].pc = "cleanup"
    /\ task'["sched"].pc # "cleanup"

\* Sixty days in the model's minutes
SixtyDays == 60 * 24 * 60

\* C32: a cleanup pass removes from the seen-item ledger the entries whose
\* timestamp is 60 days old or older and keeps every younger entry with its
\* timestamp; it changes neither the pending queue, nor the seen-episode
\* ledger, nor any source; and a pass runs 60 minutes or more after the pass
\* before it (or after the start), passes being the only steps that move
\* last_cleanup.
C32_CleanupDropsOldEntries ==
    [][ /\ CleanupStep
            => /\ DOMAIN seen_items'
                    = {k \in DOMAIN seen_items : now - seen_items[k] < SixtyDays}
               /\ \A k \in DOMAIN seen_items' : seen_items'[k] = seen_items[k]
               /\ UNCHANGED <<pending_matches, seen_episodes, sources>>
               /\ now - last_cleanup >= 60
               /\ last_cleanup' = now
        /\ last_cleanup' # last_cleanup => CleanupStep ]_vars

\* A cleanup pass has just dropped an entry that was 60 days old to the
\* minute and kept a younger one: the ledger is one entry short of the
\* persisted one
C32_OldDroppedYoungKept ==
    /\ last_cleanup = now
    /\ now > 0
    /\ task["sched"].pc # "cleanup"
    /\ seen_items # <<>>
    /\ \E k \in DOMAIN disk.seen_items :
            /\ k \notin DOMAIN seen_items
            /\ now - disk.seen_items[k] = SixtyDays
    /\ \A k \in DOMAIN seen_items : now - seen_items[k] < SixtyDays

\* ----------------------------------------------------------------- C33

\* An approve call that had found its match ends with an error in this step
ApproveFails ==
    /\ Len(approving') < Len(approving)
    /\ reply'.op = "approve"
    /\ reply'.res \in {"InvalidInput", "Rss", "Torrent"}

\* C33: when an approve call fails after it found the match (the match has
\* no link, the torrent file cannot be downloaded, or the download
\* collaborator returns an error), the match is in the pending queue
\* afterwards, and neither the session nor the ledgers have changed.
C33_FailedApproveKeepsMatch ==
    [][ApproveFails
        => /\ reply'.arg \in QueuedIds(pending_matches')
           /\ UNCHANGED <<session, seen_items, seen_episodes>>]_vars

\* ----------------------------------------------------------------- C34

\* A source record seen d minutes later, its times counted from the present
source_earlier(source, d) ==
    [source EXCEPT !.last_checked  = {x - d : x \in @},
                   !.next_check_at = {x - d : x \in @},
                   !.retry_after   = {x - d : x \in @}]

\* The global check interval passes. The clock of this specification is
\* counted from the present: every stored time is that much further in the
\* past (the code compares differences of times only). It is followed while
\* every enabled source has been checked and is not due yet, no fetch has
\* failed and no match has been constructed, with every task between ticks.
Elapse ==
    LET d == rss_check_interval_minutes
    IN  /\ \A p \in Procs : task[p].pc = "idle"
        /\ created = <<>>
        /\ seen_items = <<>>
        /\ \A k \in 1..Len(sources) :
                /\ sources[k].failure_count = U32(0)
                /\ sources[k].enabled
                    => \E next_check \in sources[k].next_check_at : next_check > now
        /\ sources' = [k \in 1..Len(sources) |-> source_earlier(sources[k], d)]
        /\ disk' = [disk EXCEPT
                        !.sources = [k \in 1..Len(@) |-> source_earlier(@[k], d)]]
        /\ last_cleanup' = last_cleanup - d
        /\ last_global_check' = last_global_check - d
        /\ UNCHANGED <<interests, seen_items, seen_episodes, bad_items, pending_matches,
                       shutdown_rx, seen_lock, seen_episodes_lock, pending_lock, task, meta, session, approving, downloads,
                       reply, now, advances, commands, created>>

\* S1 as the store holds it after an earlier run that fetched its feed:
\* the ETag of the response is kept and the next check is due
S1Cached ==
    [S1 EXCEPT !.etag = Some(ServerETag), !.last_checked = Some(0 - 20),
               !.next_check_at = Some(0 - 5)]

\* A start from a store in which S1 carries the cache token of an earlier
\* run and S2 and both interests are switched off; one command is issued
NewInterestInit ==
    /\ sources = <<S1Cached, [S2 EXCEPT !.enabled = FALSE]>>
    /\ interests = StoredQuiet.interests
    /\ seen_items = <<>>
    /\ seen_episodes = <<>>
    /\ bad_items = <<>>
    /\ pending_matches = <<>>
    /\ last_cleanup = 0
    /\ last_global_check = 0 - 60
    /\ shutdown_rx = FALSE
    /\ seen_lock = None
    /\ seen_episodes_lock = None
    /\ pending_lock = None
    /\ task = [p \in Procs |-> IdleTask]
    /\ meta = None
    /\ approving = <<>>
    /\ session = <<>>
    /\ downloads = <<>>
    /\ disk = [sources |-> sources, interests |-> interests,
               seen_items |-> seen_items, bad_items |-> <<>>]
    /\ reply = NoReply
    /\ now = 0
    /\ advances = 0
    /\ created = <<>>
    /\ commands = 1

\* Item A1 stays in the feed of S1: a document fetched from S1 holds it
A1StaysInFeed ==
    S1.id \in DOMAIN task'["sched"].fetched
        => \E i \in 1..Len(task'["sched"].fetched[S1.id]) :
                task'["sched"].fetched[S1.id][i] = A1

\* The scheduler's steps, the switching of an interest, and the passing of
\* time, for a feed that keeps A1
NewInterestNext ==
    \/ SchedTick
    \/ SchedCleanup
    \/ SchedWriteBack
    \/ SchedPersist
    \/ PollSource("sched") /\ A1StaysInFeed
    \/ PollItem("sched")
    \/ PollDecide("sched")
    \/ \E id \in InterestIds, e \in BOOLEAN : ToggleInterest(id, e)
    \/ Elapse

\* The ticker of the scheduler's loop fires, a tick that has begun goes
\* on, and time passes
NewInterestSpec ==
    /\ NewInterestInit
    /\ [][NewInterestNext]_vars
    /\ WF_vars(SchedTick)
    /\ WF_vars(SchedNext)
    /\ SF_vars(Elapse)

\* The dedup key of item A1 in the standard-mode source S1
A1Key == item_key(S1, None, A1)

\* Interest I1 is switched on, and item A1 (a link, a title that I1's
\* filter takes, no episode of I1 recorded) has no ledger key
A1Awaited ==
    /\ \E k \in 1..Len(interests) : interests[k].id = I1.id /\ interests[k].enabled
    /\ HasLink(A1)
    /\ filters_result[<<I1, A1>>] # None
    /\ EpisodesOf(seen_episodes, I1.id) = {}
    /\ A1Key \notin DOMAIN seen_items

\* A PendingMatch has been constructed for A1 of S1
A1Queued == \E k \in 1..Len(created) : created[k].key = A1Key

\* What the claim leaves aside: S1 or I1 switched off, a failed fetch of S1
A1Excused ==
    \/ \E k \in 1..Len(sources) : sources[k].id = S1.id /\ ~sources[k].enabled
    \/ \E k \in 1..Len(interests) : interests[k].id = I1.id /\ ~interests[k].enabled
    \/ \E k \in 1..Len(sources) : sources[k].id = S1.id /\ sources[k].failure_count # U32(0)
    \/ S1.id \in task["sched"].failed

\* C34: once an interest is enabled while a link-bearing item that matches
\* it is in a standard-mode source's feed without a ledger key, the scheduler
\* eventually creates a PendingMatch for the item, unless the source or the
\* interest is switched off or a fetch of the source fails.
C34_NewInterestFindsItem == A1Awaited ~> (A1Queued \/ A1Excused)

\* ----------------------------------------------------------------- C35

\* The minutes the clock may run
MaxMinutes == 32

\* The ticker's period passes: "tokio::time::interval(Duration::from_secs(60))"
Minute ==
    /\ advances < MaxMinutes
    /\ \A p \in Procs : task[p].pc = "idle"
    /\ now' = now + 1
    /\ advances' = advances + 1
    /\ UNCHANGED <<sources, interests, seen_items, seen_episodes, bad_items,
                   pending_matches, last_cleanup, shutdown_rx, last_global_check, seen_lock, seen_episodes_lock, pending_lock, task,
                   meta, session, approving, downloads, disk, reply, commands, created>>

\* The scheduler alone, with a tick at any minute; the hourly cleanup, run
\* at the start, is not due again within the minutes the clock runs
RetryNext ==
    \/ SchedTick
    \/ SchedWriteBack
    \/ SchedPersist
    \/ PollSource("sched")
    \/ PollItem("sched")
    \/ PollDecide("sched")
    \/ Minute

RetrySpec == BackoffInit /\ [][RetryNext]_vars

\* C35: a source whose last scheduler check failed (its failure_count is
\* not zero) at tick time t carries retry_after = t + backoff(failure_count)
\* and next_check_at = t + its check interval, and a later tick checks it
\* exactly when both times have passed: not before the later of the two,
\* and at the first tick from then on. When the interval is longer than the
\* backoff, the retry waits for the whole interval.
C35_RetryWhenBothTimesPassed ==
    TickInSourceLoop
    => LET t == task["sched"]
       IN  \A j \in TickDealtWith :
                LET source == t.sources[j]
                IN  source.enabled /\ source.failure_count # U32(0)
                    => \E failed_at \in source.last_checked :
                        LET retry == failed_at + calculate_backoff(source.failure_count)
                            next_check == failed_at + IntervalOf(source)
                        IN  /\ source.retry_after = Some(retry)
                            /\ source.next_check_at = Some(next_check)
                            /\ (j \in TickChecked)
                                = (t.now_utc >= retry /\ t.now_utc >= next_check)

\* A tick has passed over a source that failed before: its retry time has
\* passed, its next check, the full interval after the failure, has not
C35_RetryWaitsForInterval ==
    LET t == task["sched"]
    IN  /\ t.kind = "tick"
        /\ t.pc = "writeback"
        /\ \E j \in 1..Len(t.sources) :
                /\ t.sources[j].enabled
                /\ t.sources[j].failure_count # U32(0)
                /\ \E retry \in t.sources[j].retry_after,
                      next_check \in t.sources[j].next_check_at :
                        /\ retry < next_check
                        /\ retry <= t.now_utc
                        /\ t.now_utc < next_check
                        /\ t.now_utc > Get(t.sources[j].last_checked)
                /\ j \notin TickChecked

\* ----------------------------------------------------------------- C36

\* The iteration of task record t reaches "rss_state.seen_episodes.lock()":
\* the item has a link, and an interest the loop comes to matches it with
\* its filters and has an episode gate for it
consults_episodes(t) ==
    LET item    == t.items[t.ii]
        reached == IF t.ik > 0 THEN {t.ik}
                   ELSE LET hit == first_match(t.interests, 1, item, seen_episodes)
                        IN  1..(IF hit = 0 THEN Len(t.interests) ELSE hit)
    IN  /\ HasLink(item)
        /\ \E k \in reached :
                /\ filters_result[<<t.interests[k], item>>] # None
                /\ episode_gate(t.interests[k], item, seen_episodes) # "pass"

\* "let mut seen_eps = rss_state.seen_episodes.lock().await", under the
\* seen_items guard
LockEpisodes(p) ==
    /\ task[p].pc = "locked"
    /\ consults_episodes(task[p])
    /\ seen_episodes_lock = None
    /\ seen_episodes_lock' = Some(p)
    /\ task' = [task EXCEPT ![p].pc = "episodes"]
    /\ UNCHANGED <<sources, interests, seen_items, seen_episodes, bad_items, pending_matches,
                   last_cleanup, last_global_check, shutdown_rx, seen_lock, pending_lock,
                   meta, approving, session, downloads, disk, reply, now, advances, commands,
                   created>>

\* A step that goes on to the queue with the seen_items guard still alive
DecideLocked_keeping_guard(p) ==
    LET t    == task[p]
        src  == t.sources[t.si]
        item == t.items[t.ii]
    IN  /\ t.pc \in {"locked", "episodes"}
        /\ (t.pc = "episodes") = consults_episodes(t)
        /\ \E d \in {IF t.ik > 0
                      THEN decide_for_interest(src, t.interests, t.ik, item,
                                               seen_items, seen_episodes, now)
                      ELSE decide_standard(src, t.interests, item,
                                           seen_items, seen_episodes, now)} :
            /\ seen_items' = d.seen
            /\ seen_episodes' = d.eps
            /\ IF d.hit = 0
               THEN /\ UNCHANGED created
                    /\ seen_lock' = None
                    /\ task' = [task EXCEPT ![p] = after_item(t)]
               ELSE /\ created' = Append(created,
                            [key |-> current_key(t),
                             match |-> NewPending(Len(created) + 1, src,
                                                  t.interests[d.hit], item, now)])
                    /\ UNCHANGED seen_lock
                    /\ task' = [task EXCEPT ![p].pc = "push"]
        /\ seen_episodes_lock' = None
        /\ UNCHANGED <<sources, interests, bad_items, pending_matches, last_cleanup,
                       last_global_check, shutdown_rx, pending_lock, meta, approving, session,
                       downloads, disk, reply, now, advances, commands>>

\* The rest of the iteration under the guards: the link test, the filters,
\* the episode gate and the inserts; the seen_episodes guard ends with its
\* block, "drop(seen)" (or the end of the iteration) ends the seen_items
\* guard, and the PendingMatch is constructed.
DecideLocked(p) ==
    LET t    == task[p]
        src  == t.sources[t.si]
        item == t.items[t.ii]
    IN  /\ t.pc \in {"locked", "episodes"}
        /\ (t.pc = "episodes") = consults_episodes(t)
        /\ \E d \in {IF t.ik > 0
                      THEN decide_for_interest(src, t.interests, t.ik, item,
                                               seen_items, seen_episodes, now)
                      ELSE decide_standard(src, t.interests, item,
                                           seen_items, seen_episodes, now)} :
            /\ seen_items' = d.seen
            /\ seen_episodes' = d.eps
            /\ IF d.hit = 0
               THEN /\ UNCHANGED created
                    /\ task' = [task EXCEPT ![p] = after_item(t)]
               ELSE /\ created' = Append(created,
                            [key |-> current_key(t),
                             match |-> NewPending(Len(created) + 1, src,
                                                  t.interests[d.hit], item, now)])
                    /\ task' = [task EXCEPT ![p].pc = "push"]
        /\ seen_episodes_lock' = None
        /\ seen_lock' = None
        /\ UNCHANGED <<sources, interests, bad_items, pending_matches, last_cleanup,
                       last_global_check, shutdown_rx, pending_lock, meta, approving, session,
                       downloads, disk, reply, now, advances, commands>>

\* "rss_state.pending_matches.write().await"
LockQueue(p) ==
    /\ task[p].pc = "push"
    /\ pending_lock = None
    /\ pending_lock' = Some(p)
    /\ task' = [task EXCEPT ![p].pc = "pushing"]
    /\ UNCHANGED <<sources, interests, seen_items, seen_episodes, bad_items, pending_matches,
                   last_cleanup, last_global_check, shutdown_rx, seen_lock, seen_episodes_lock,
                   meta, approving, session, downloads, disk, reply, now, advances, commands,
                   created>>

\* ".push(pending.clone())" of the PendingMatch the iteration constructed,
\* and the end of the write guard
PushMatch(p) ==
    LET t    == task[p]
        mine == {k \in 1..Len(created) : created[k].key = current_key(t)}
        last == CHOOSE k \in mine : \A j \in mine : j <= k
    IN  /\ t.pc = "pushing"
        /\ pending_matches' = Append(pending_matches, created[last].match)
        /\ pending_lock' = None
        /\ task' = [task EXCEPT ![p] = after_item(t)]
        /\ UNCHANGED <<sources, interests, seen_items, seen_episodes, bad_items,
                       last_cleanup, last_global_check, shutdown_rx, seen_lock,
                       seen_episodes_lock, meta, approving, session, downloads, disk, reply,
                       now, advances, commands, created>>

\* The operations with every acquisition of the three locks a step of its
\* own; a command that reads or writes the queue waits for its lock
LockNext ==
    \/ SchedTick
    \/ SchedCleanup
    \/ SchedWriteBack
    \/ SchedPersist
    \/ \E p \in Procs : PollSource(p)
    \/ \E p \in Procs : PollSearch(p)
    \/ \E p \in Procs : PollItem(p)
    \/ \E p \in Procs : LockEpisodes(p)
    \/ \E p \in Procs : DecideLocked(p)
    \/ \E p \in Procs : LockQueue(p)
    \/ \E p \in Procs : PushMatch(p)
    \/ CheckFeedsNow
    \/ \E h \in BadHashes, i \in BadInterestIds, r \in BOOLEAN : MarkBad(h, i, r)
    \/ \E id \in MatchIds : pending_lock = None /\ ApproveStart(id)
    \/ \E k \in 1..Len(approving) : pending_lock = None /\ ApproveFinish(k)
    \/ \E id \in MatchIds : pending_lock = None /\ Reject(id)
    \/ \E id \in MatchIds : pending_lock = None /\ FetchMetadataStart(id)
    \/ pending_lock = None /\ FetchMetadataFinish
    \/ Advance

LockSpec == Init /\ [][LockNext]_vars

\* The locks task p holds
Holds(p) ==
    {l \in {"seen_items", "seen_episodes", "pending_matches"} :
        \/ l = "seen_items" /\ seen_lock = Some(p)
        \/ l = "seen_episodes" /\ seen_episodes_lock = Some(p)
        \/ l = "pending_matches" /\ pending_lock = Some(p)}

\* Task p takes the lock the variable lock stands for in this step
Takes(p, lock, lock_after) == lock # Some(p) /\ lock_after = Some(p)

StandardDecision(p) ==
    /\ task[p].pc = "locked"
    /\ task[p].ik = 0
    /\ task'[p] # task[p]

\* No interest of the poll accepts the item: its filters do not match, or
\* its episode gate turns the item down
AcceptedByNone(t, item) ==
    \A k \in 1..Len(t.interests) :
        \/ filters_result[<<t.interests[k], item>>] = None
        \/ episode_gate(t.interests[k], item, seen_episodes) = "skip"

\* C37: in a standard-mode poll of a fetched feed, the ledger gains the key
\* of an item exactly when the item has no link or a PendingMatch is created
\* for it, and it gains no other key; a link-bearing item that no enabled
\* interest accepts leaves the ledger and the queue as they are, so that the
\* next full fetch evaluates it again. No other step of a poll adds a key.
C37_KeyForNoLinkOrMatch ==
    [][/\ \A p \in Procs :
            StandardDecision(p)
            => LET t     == task[p]
                   item  == t.items[t.ii]
                   key   == current_key(t)
                   match == /\ Len(created') = Len(created) + 1
                            /\ created'[Len(created')].key = key
                            /\ pending_matches'
                                = Append(pending_matches, created'[Len(created')].match)
               IN  /\ key = item_key(t.sources[t.si], None, item)
                   /\ key \notin DOMAIN seen_items
                   /\ (key \in DOMAIN seen_items') = (~HasLink(item) \/ match)
                   /\ DOMAIN seen_items' \subseteq DOMAIN seen_items \cup {key}
                   /\ ~match => UNCHANGED <<created, pending_matches>>
                   /\ HasLink(item) /\ AcceptedByNone(t, item)
                        => UNCHANGED <<seen_items, seen_episodes, created, pending_matches>>
                   /\ HasLink(item) /\ ~AcceptedByNone(t, item) => match
       /\ \A key \in DOMAIN seen_items' \ DOMAIN seen_items :
            \E p \in Procs : task[p].pc = "locked" /\ key = current_key(task[p])
                                /\ task'[p] # task[p]]_vars

\* A tick evaluates item a5 of S1 (a link, a title no interest takes) again:
\* an earlier tick fetched the same document in full and stored the keys of
\* a2 (queued) and a4 (no link), and none for a5
C37_UnmatchedItemEvaluatedAgain ==
    LET t == task["sched"]
    IN  /\ t.pc = "locked"
        /\ t.ik = 0
        /\ t.sources[t.si].id = S1.id
        /\ t.items = <<A2, A4, A5>>
        /\ t.items[t.ii] = A5
        /\ HasLink(A5)
        /\ AcceptedByNone(t, A5)
        /\ commands = MaxCommands
        /\ {item_key(S1, None, A2), item_key(S1, None, A4)} \subseteq DOMAIN disk.seen_items
        /\ item_key(S1, None, A5) \notin DOMAIN seen_items
        /\ \E k \in 1..Len(created) : created[k].key = item_key(S1, None, A2)

\* ----------------------------------------------------------------- C38

\* The pairs of interest id and episode id an episode ledger holds
EpisodePairs(eps) ==
    {pair \in (DOMAIN eps) \X UNION {eps[j] : j \in DOMAIN eps} : pair[2] \in eps[pair[1]]}

\* C38: an episode id enters an interest's seen-episode set only in the
\* step of a poll's item loop that also constructs and queues a PendingMatch
\* for that interest and for an item whose title carries that episode id;
\* one step records at most one episode.
C38_EpisodeRecordedWithMatch ==
    [][\A pair \in EpisodePairs(seen_episodes') \ EpisodePairs(seen_episodes) :
            /\ \E p \in Procs : task[p].pc = "locked" /\ task'[p] # task[p]
            /\ Len(created') = Len(created) + 1
            /\ LET pm == created'[Len(created')].match
               IN  /\ pm.interest_id = pair[1]
                   /\ episode_id_of[pm.title] = Some(pair[2])
                   /\ pending_matches' = Append(pending_matches, pm)
            /\ EpisodePairs(seen_episodes') = EpisodePairs(seen_episodes) \cup {pair}]_vars

\* Episode S01E01 is recorded for interest i1, and a match of i1 for an item
\* with that episode has been constructed
C38_EpisodeOfQueuedItem ==
    /\ \E e \in EpisodesOf(seen_episodes, I1.id) :
            \E k \in 1..Len(created) :
                /\ created[k].match.interest_id = I1.id
                /\ episode_id_of[created[k].match.title] = Some(e)
    /\ pending_matches # <<>>

\* ----------------------------------------------------------------- C39

\* The positions of the poll's interests whose filters match the item
FilterMatches(t, item) ==
    {k \in 1..Len(t.interests) : filters_result[<<t.interests[k], item>>] # None}

\* The first interest of the poll whose filters match the item turns it
\* down by its episode gate
FirstMatchSuppresses(t, item) ==
    /\ HasLink(item)
    /\ \E k \in FilterMatches(t, item) :
            /\ \A j \in FilterMatches(t, item) : k <= j
            /\ episode_gate(t.interests[k], item, seen_episodes) = "skip"

\* C39: in standard mode, when the first interest whose filters match an
\* item suppresses it by its episode gate, the loop goes on: the item is
\* queued for the first later interest whose filters match and whose gate
\* does not suppress it, the episode sets of all other interests stay as
\* they are, and without such an interest nothing is queued or recorded.
C39_SuppressedItemGoesToLaterInterest ==
    [][\A p \in Procs :
            StandardDecision(p) /\ FirstMatchSuppresses(task[p], task[p].items[task[p].ii])
            => LET t      == task[p]
                   item   == t.items[t.ii]
                   takers == {k \in FilterMatches(t, item) :
                                episode_gate(t.interests[k], item, seen_episodes) # "skip"}
               IN  IF takers = {}
                   THEN UNCHANGED <<seen_items, seen_episodes, created, pending_matches>>
                   ELSE LET k == CHOOSE j \in takers : \A i \in takers : j <= i
                            pm == created'[Len(created')].match
                        IN  /\ Len(created') = Len(created) + 1
                            /\ pm.interest_id = t.interests[k].id
                            /\ pm.title = item.title
                            /\ pending_matches' = Append(pending_matches, pm)
                            /\ current_key(t) \in DOMAIN seen_items'
                            /\ \A i \in (DOMAIN seen_episodes \cup DOMAIN seen_episodes')
                                            \ {t.interests[k].id} :
                                    EpisodesOf(seen_episodes', i) = EpisodesOf(seen_episodes, i)]_vars

\* A standard-mode poll of S1 with the interests i1 and i2 has queued item
\* a1 for i2, the episode of a1 being recorded for i1 (whose filter matches
\* a1) and i2 having no recorded episode
C39_QueuedForSecondInterest ==
    \E p \in Procs :
        /\ task[p].pc = "item"
        /\ task[p].ik = 0
        /\ task[p].interests = <<I1, I2>>
        /\ task[p].sources[task[p].si].id = S1.id
        /\ task[p].items[1] = A1
        /\ task[p].ii = 2
        /\ filters_result[<<I1, A1>>] # None
        /\ episode_id_of[A1.title] \subseteq EpisodesOf(seen_episodes, I1.id)
        /\ episode_id_of[A1.title] # None
        /\ EpisodesOf(seen_episodes, I2.id) = {}
        /\ created # <<>>
        /\ created[Len(created)].key = item_key(S1, None, A1)
        /\ created[Len(created)].match.interest_id = I2.id
        /\ pending_matches # <<>>
        /\ pending_matches[Len(pending_matches)] = created[Len(created)].match

\* ----------------------------------------------------------------- C40

\* The interest with this id has its smart episode filter switched on
SmartInterest(interest_id) ==
    \E k \in 1..Len(interests) :
        interests[k].id = interest_id /\ interests[k].smart_episode_filter

\* C40: once a match that is no quality upgrade has been queued for an
\* interest with smart_episode_filter for an item with episode id E, no
\* later step - before or after a restart of the application - queues for
\* that interest another item with episode id E that is no quality upgrade.
C40_EpisodeSuppressedAcrossRestart ==
    [][\A j \in JustMade : \A k \in 1..Len(created) :
            LET new == created'[j]
                old == created[k]
            IN  /\ old.match.interest_id = new.match.interest_id
                /\ SmartInterest(new.match.interest_id)
                /\ ~quality_upgrade_of[old.match.title]
                /\ episode_id_of[old.match.title] # None
                /\ episode_id_of[new.match.title] = episode_id_of[old.match.title]
                /\ new.key # old.key
                => quality_upgrade_of[new.match.title]]_vars

====
